---- MODULE Spec2Model ----
(***************************************************************************)
(* Model of the temporal event-detection engine of misticos.bo.backend:    *)
(*   src/transitos.py  calcular_transitos_cielo, calcular_transitos_natal, *)
(*                     calcular_fases_lunares (monthly filter)             *)
(*   src/main_api.py   calcular_transitos_planeta and its refiners         *)
(*                                                                         *)
(* Units.  Longitudes, orbs and distances are integers in tenths of a      *)
(* degree (360.0 degrees = 3600).  In transitos.py time is an integer      *)
(* number of hourly samples since 00:00 of fecha_inicio; the source's day  *)
(* holds 24 hourly samples, the model's day holds HorasPorDia of them, so  *)
(* that last_end = final_day + (HorasPorDia - 1) hours.                    *)
(*                                                                         *)
(* The ephemeris provider (swisseph) is external: every answer it gives is *)
(* a nondeterministic choice, remembered in efem so that the same instant  *)
(* always gets the same answer.                                            *)
(***************************************************************************)
EXTENDS Integers, Sequences, FiniteSets, TLC

VARIABLES
    scanner,        \* which function is running: "cielo", "natal", ...
    entrada,        \* the arguments of the call
    llamada,        \* 1 for the first invocation, 2 for a repeated one
    pc,             \* "bucle" while sampling, "fin" once the function returned
    fecha,          \* the loop cursor (transitos.py: fecha)
    ventanas,       \* transitos.py: ventanas, in insertion order
    estado_prev,    \* calcular_transitos_natal: estado_prev
    out,            \* transitos.py: out[p]["eventos"]
    resultado,      \* the returned value, None until the return
    primera,        \* the value returned by the first invocation (history)
    efem,           \* the provider's answers so far: instant -> answers
    anterior,       \* calcular_transitos_planeta: signo_anterior, casa_anterior,
                    \*   retrogrado_anterior, jd_prev, fecha_prev
    estados_aspectos, \* calcular_transitos_planeta: estados_aspectos
    eventos,        \* calcular_transitos_planeta: eventos
    abiertas,       \* history: the key of every window calcular_transitos_planeta
                    \*   opened, in order
    jd_busqueda,    \* calcular_eclipses: jd, the search cursor
    eclipses,       \* calcular_eclipses: eclipses
    hallados,       \* history: subtipo and instant of every eclipse appended
    vueltas,        \* history: the iterations each loop of calcular_eclipses began
    ephe_path,      \* the ephemeris path of the swisseph library, process-wide
    hilos,          \* per request being served: its position and what it read
    visitados       \* history: the instants sampled by this call of transitos.py

vars == <<scanner, entrada, llamada, pc, fecha, ventanas, estado_prev, out,
          resultado, primera, efem, anterior, estados_aspectos, eventos, abiertas,
          jd_busqueda, eclipses, hallados, vueltas, ephe_path, hilos, visitados>>

\* the process-wide path and the requests served concurrently
varsProceso == <<ephe_path, hilos>>

\* the variables of calcular_transitos_planeta, untouched by transitos.py
varsPlaneta == <<anterior, estados_aspectos, eventos, abiertas>>

\* the variables of calcular_eclipses
varsEclipses == <<jd_busqueda, eclipses, hallados, vueltas>>

----------------------------------------------------------------------------
(* Bounds of the model *)

HorasPorDia == 2

\* final_day - inicio_day, in days, of the scans explored (-1: end before start)
DiasFinales == {-1, 0, 1}

----------------------------------------------------------------------------
(* Optional values: None is Python's None *)

None == <<>>
Some(v) == <<v>>
Val(o) == o[1]

\* TRUE; evaluating it evaluates x, so that a loop's state is computed
\* iteration by iteration
Evaluado(x) == x = x

Min(a, b) == IF a <= b THEN a ELSE b
Abs(x) == IF x < 0 THEN -x ELSE x

----------------------------------------------------------------------------
(* Catalogues of transitos.py *)

\* The first three bodies of PLANETAS, in dict order; the other seven are
\* handled by the same code.
PLANETAS == <<"SOL", "LUNA", "MERCURIO">>

ASPECTOS == << [nombre |-> "conjuncion", ang |-> 0],
               [nombre |-> "sextil",     ang |-> 600],
               [nombre |-> "cuadratura", ang |-> 900],
               [nombre |-> "trigono",    ang |-> 1200],
               [nombre |-> "oposicion",  ang |-> 1800] >>

ORBES_BASE == [LUNA |-> 60, SOL |-> 40, MERCURIO |-> 30, VENUS |-> 30,
               MARTE |-> 25, JUPITER |-> 20, SATURNO |-> 20, URANO |-> 15,
               NEPTUNO |-> 15, PLUTON |-> 15]

\* ORBES_BASE.get(p, default)
OrbeBase(p, default) == IF p \in DOMAIN ORBES_BASE THEN ORBES_BASE[p] ELSE default

\* ORBES_BASE.get(p, 2.0)
ORBE_DEFECTO == 20

----------------------------------------------------------------------------
(* AngleMath *)

\* Python's % takes the sign of the divisor, as % does here
norm360(x) ==
    LET y == x % 3600
    IN IF y < 0 THEN y + 3600 ELSE y

\* a separation that is not folded back under 180 degrees
ang_diff_sin_plegar(a, b) == Abs(norm360(a) - norm360(b))

ang_diff(a, b) ==
    LET diff == Abs(norm360(a) - norm360(b))
    IN IF diff > 1800 THEN 3600 - diff ELSE diff

\* a distance that keeps the sign of the difference
distancia_con_signo(lon1, lon2, ang_obj) == ang_diff(lon1, lon2) - ang_obj

distancia_aspecto(lon1, lon2, ang_obj) == Abs(ang_diff(lon1, lon2) - ang_obj)

----------------------------------------------------------------------------
(* Timestamps of transitos.py *)

inicio_day == 0
final_day == entrada.dias * HorasPorDia
delta == 1

\* a loop that stops at the first instant of the final day
last_end_dia == final_day

\* final_day + timedelta(hours=23)
last_end == final_day + (HorasPorDia - 1)

\* dt.strftime(DT_FMT): the text "day hour:00", kept as its two fields
fecha_str(dt) == [dia |-> dt \div HorasPorDia, hora |-> dt % HorasPorDia]

\* datetime.strptime(s, DT_FMT)
strptime(s) == s.dia * HorasPorDia + s.hora

\* order of two formatted timestamps, as texts
FechaLeq(s1, s2) == s1.dia < s2.dia \/ (s1.dia = s2.dia /\ s1.hora <= s2.hora)

----------------------------------------------------------------------------
(* The ephemeris provider *)

\* The answers the provider may give for body p at one instant: lon is
\* _calc_long (None when swe.calc_ut raises), vel the speed of the separate
\* FLG_SPEED call of calcular_transitos_natal.
Respuestas(perfil, p) ==
    IF p = "LUNA" /\ perfil = "lon"
    THEN {[lon |-> Some(l), vel |-> Some(1)] : l \in {255, 295, 338}}
            \cup {[lon |-> None, vel |-> None]}
    ELSE IF p = "LUNA"
    THEN {[lon |-> Some(295), vel |-> v] : v \in {Some(-1), Some(0), Some(1), None}}
            \cup {[lon |-> None, vel |-> None]}
    ELSE IF p = "SOL" THEN {[lon |-> Some(300), vel |-> Some(1)]}
    ELSE {[lon |-> Some(330), vel |-> Some(1)]}

\* all the answers of one instant, one per body asked about
RespuestasInstante(perfil, cuerpos) ==
    {r \in [cuerpos -> UNION {Respuestas(perfil, p) : p \in cuerpos}] :
        \A p \in cuerpos : r[p] \in Respuestas(perfil, p)}

\* the answers at instant t: the remembered ones, or any
Consultas(t, cuerpos) ==
    IF t \in DOMAIN efem THEN {efem[t]}
    ELSE RespuestasInstante(entrada.perfil, cuerpos)

Recordar(t, r) == IF t \in DOMAIN efem THEN efem ELSE efem @@ (t :> r)

\* the same two, for answers ef that already hold those of an earlier call
ConsultasEn(ef, t, cuerpos) ==
    IF t \in DOMAIN ef THEN {ef[t]}
    ELSE RespuestasInstante(entrada.perfil, cuerpos)

RecordarEn(ef, t, r) == IF t \in DOMAIN ef THEN ef ELSE ef @@ (t :> r)

----------------------------------------------------------------------------
(* Sorting: Python's sorted(xs, key=...) is stable *)

\* xs: a sequence of [k |-> sort key, e |-> element], already sorted
RECURSIVE Insertar(_, _)
Insertar(xs, x) ==
    IF xs = <<>> THEN <<x>>
    ELSE IF xs[Len(xs)].k <= x.k THEN Append(xs, x)
    ELSE Append(Insertar(SubSeq(xs, 1, Len(xs) - 1), x), xs[Len(xs)])

RECURSIVE OrdenarPares(_)
OrdenarPares(xs) ==
    IF xs = <<>> THEN <<>>
    ELSE Insertar(OrdenarPares(SubSeq(xs, 1, Len(xs) - 1)), xs[Len(xs)])

\* a sort that leaves the list as it is
sin_ordenar(xs, ks) == xs

\* sorted(xs, key=...) where ks[i] is the key of xs[i]
sorted(xs, ks) ==
    LET ps == OrdenarPares([i \in 1..Len(xs) |-> [k |-> ks[i], e |-> xs[i]]])
    IN [i \in 1..Len(ps) |-> ps[i].e]

----------------------------------------------------------------------------
(* Windows *)

\* a lookup that takes the first window of the same first body
IndicePorCuerpo(vs, clave) ==
    IF \E i \in 1..Len(vs) : vs[i].clave[1] = clave[1]
    THEN CHOOSE i \in 1..Len(vs) : vs[i].clave[1] = clave[1]
    ELSE 0

\* ventanas.get(clave): the position of the window of clave, 0 when absent
IndiceVentana(vs, clave) ==
    IF \E i \in 1..Len(vs) : vs[i].clave = clave
    THEN CHOOSE i \in 1..Len(vs) : vs[i].clave = clave
    ELSE 0

planetas == IF entrada.incluir_luna THEN PLANETAS
            ELSE SelectSeq(PLANETAS, LAMBDA p : p # "LUNA")

Rango(xs) == {xs[i] : i \in 1..Len(xs)}

\* truth value of an optional list or dict: None and the empty one are false
Truthy(o) == o # None /\ Val(o) # <<>>

----------------------------------------------------------------------------
(* calcular_transitos_cielo *)

\* pair loops that take every ordered pair of distinct bodies
ClavesCieloOrdenadas(ps) ==
    LET n == Len(ps)
        m == Len(ASPECTOS)
        todas == [x \in 1..(n * n * m) |->
                    <<((x - 1) \div (n * m)) + 1, (((x - 1) \div m) % n) + 1,
                      ((x - 1) % m) + 1>>]
    IN SelectSeq(todas, LAMBDA k : k[1] # k[2])

\* the (i, j, aspect) triples in the order of the three nested loops
ClavesCielo(ps) ==
    LET n == Len(ps)
        m == Len(ASPECTOS)
        todas == [x \in 1..(n * n * m) |->
                    <<((x - 1) \div (n * m)) + 1, (((x - 1) \div m) % n) + 1,
                      ((x - 1) % m) + 1>>]
    IN SelectSeq(todas, LAMBDA k : k[1] < k[2])

\* a window that spans from the sample before the one that opened it
VentanaNuevaAnterior(clave, fch, dist) ==
    [clave |-> clave, activo |-> TRUE, fecha_inicio |-> fecha_str(fch - delta),
     fecha_exacto |-> fecha_str(fch), dist_min |-> dist]

\* the window stored when a key enters orb
VentanaNueva(clave, fch, dist) ==
    [clave |-> clave, activo |-> TRUE, fecha_inicio |-> fecha_str(fch),
     fecha_exacto |-> fecha_str(fch), dist_min |-> dist]

\* a minimum that moves to the latest sample of equal distance
AcercarUltima(estado, dist, fch) ==
    IF dist <= estado.dist_min
    THEN [estado EXCEPT !.dist_min = dist, !.fecha_exacto = fecha_str(fch)]
    ELSE estado

\* "if dist < estado.get('dist_min', 9999.0)": the closest sample so far
Acercar(estado, dist, fch) ==
    IF dist < estado.dist_min
    THEN [estado EXCEPT !.dist_min = dist, !.fecha_exacto = fecha_str(fch)]
    ELSE estado

\* a flush that takes every window for an active one
SiempreActiva(estado) == TRUE

\* estado.get("activo") of the flush
SigueActiva(estado) == estado.activo

\* the start of the final day as the flush's close
last_fin_dia == fecha_str(final_day)

\* (final_day + timedelta(hours=23)).strftime(DT_FMT)
last_fin == fecha_str(final_day + (HorasPorDia - 1))

\* an event whose close is the window's opening time
EventoCieloCierreInicial(p1, p2, asp_name, estado, fin) ==
    [tipo |-> "aspecto_transito", planeta1 |-> p1, planeta2 |-> p2,
     aspecto |-> asp_name, fecha_inicio |-> estado.fecha_inicio,
     fecha_exacto |-> estado.fecha_exacto, fecha_fin |-> estado.fecha_inicio]

EventoCielo(p1, p2, asp_name, estado, fin) ==
    [tipo |-> "aspecto_transito", planeta1 |-> p1, planeta2 |-> p2,
     aspecto |-> asp_name, fecha_inicio |-> estado.fecha_inicio,
     fecha_exacto |-> estado.fecha_exacto, fecha_fin |-> fin]

\* the body of the innermost loop for one pair and one aspect;
\* st = [ventanas, out]
VentanaCielo(st, p1, p2, asp, lon1, lon2, fch) ==
    LET orbe == Min(OrbeBase(p1, ORBE_DEFECTO), OrbeBase(p2, ORBE_DEFECTO))
        dist == distancia_aspecto(lon1, lon2, asp.ang)
        clave == <<p1, p2, asp.nombre>>
        i == IndiceVentana(st.ventanas, clave)
    IN IF dist <= orbe /\ i = 0
       THEN [st EXCEPT !.ventanas = Append(@, VentanaNueva(clave, fch, dist))]
       ELSE IF i # 0 /\ st.ventanas[i].activo
       THEN LET e0 == st.ventanas[i]
                e1 == Acercar(e0, dist, fch)
            IN IF dist > orbe
               THEN LET evento == EventoCielo(p1, p2, asp.nombre, e1, fecha_str(fch))
                    IN [ventanas |-> [st.ventanas EXCEPT ![i] = [e1 EXCEPT !.activo = FALSE]],
                        out |-> [st.out EXCEPT ![p1] = Append(@, evento),
                                               ![p2] = Append(@, evento)]]
               ELSE [st EXCEPT !.ventanas[i] = e1]
       ELSE st

\* the pair loops of one sample: a pair with an unavailable longitude is skipped
RECURSIVE BucleCielo(_, _, _, _, _)
BucleCielo(st, ps, claves, longitudes, fch) ==
    IF claves = <<>> THEN st
    ELSE LET k == Head(claves)
             p1 == ps[k[1]]
             p2 == ps[k[2]]
             lon1 == longitudes[p1].lon
             lon2 == longitudes[p2].lon
             st1 == IF lon1 = None \/ lon2 = None \/ p1 = p2 THEN st
                    ELSE VentanaCielo(st, p1, p2, ASPECTOS[k[3]],
                                      Val(lon1), Val(lon2), fch)
         IN IF Evaluado(st1)
            THEN BucleCielo(st1, ps, Tail(claves), longitudes, fch)
            ELSE st1

\* "cerrar ventanas activas": one event per window still active, in the
\* insertion order of ventanas
RECURSIVE CerrarCielo(_, _, _)
CerrarCielo(o, vs, fin) ==
    IF vs = <<>> THEN o
    ELSE LET estado == Head(vs)
             p1 == estado.clave[1]
             p2 == estado.clave[2]
             evento == EventoCielo(p1, p2, estado.clave[3], estado, fin)
             o1 == IF SigueActiva(estado)
                   THEN [o EXCEPT ![p1] = Append(@, evento), ![p2] = Append(@, evento)]
                   ELSE o
         IN IF Evaluado(o1) THEN CerrarCielo(o1, Tail(vs), fin) ELSE o1

\* _key of calcular_transitos_cielo: every event of this scan has fecha_exacto
KeyCielo(ev) == strptime(ev.fecha_exacto)

\* the returned list: one record per body, its events sorted by the keys
\* that claves gives each body's events
Resultado(ps, o, claves) ==
    [i \in 1..Len(ps) |->
        [planeta |-> ps[i], eventos |-> sorted(o[ps[i]], claves[ps[i]])]]

\* the instant of swe.julday(y, m, d, 12.0) for the day that starts at dia
mediodia(dia) == dia + HorasPorDia \div 2

\* {"longitud": long, "grado": long % 30}
PosicionExtremo(long) == [longitud |-> long, grado |-> long % 300]

\* The try block that fills posicion_inicial and posicion_final, body by
\* body, from the answers at noon of the first and of the last day.  A
\* longitude of None raises inside the block (float(None), None % 30) and
\* "except Exception: pass" abandons the loop: the bodies after it keep
\* None, and so does the body itself, except for a posicion_inicial
\* already assigned when only long_fin is None.
RECURSIVE PosicionesExtremos(_, _, _)
PosicionesExtremos(ps, r_ini, r_fin) ==
    IF ps = <<>> THEN <<>>
    ELSE LET p == Head(ps)
             long_ini == r_ini[p].lon
             long_fin == r_fin[p].lon
             nada == [posicion_inicial |-> None, posicion_final |-> None]
         IN IF long_ini = None
            THEN [i \in 1..Len(ps) |-> nada]
            ELSE IF long_fin = None
            THEN <<[posicion_inicial |-> Some(PosicionExtremo(Val(long_ini))),
                    posicion_final |-> None]>>
                 \o [i \in 1..(Len(ps) - 1) |-> nada]
            ELSE <<[posicion_inicial |-> Some(PosicionExtremo(Val(long_ini))),
                    posicion_final |-> Some(PosicionExtremo(Val(long_fin)))]>>
                 \o PosicionesExtremos(Tail(ps), r_ini, r_fin)

\* the records of the returned list with their two positions
ConPosiciones(res, pos) ==
    [i \in 1..Len(res) |->
        [planeta |-> res[i].planeta,
         posicion_inicial |-> pos[i].posicion_inicial,
         posicion_final |-> pos[i].posicion_final,
         eventos |-> res[i].eventos]]

\* one iteration of the while loop
CieloMuestra ==
    /\ scanner = "cielo" /\ pc = "bucle" /\ fecha <= last_end
    /\ \E longitudes \in Consultas(fecha, Rango(planetas)) :
        LET st == BucleCielo([ventanas |-> ventanas, out |-> out], planetas,
                             ClavesCielo(planetas), longitudes, fecha)
        IN /\ ventanas' = st.ventanas
           /\ out' = st.out
           /\ efem' = Recordar(fecha, longitudes)
    /\ fecha' = fecha + delta
    /\ visitados' = Append(visitados, fecha)
    /\ UNCHANGED <<varsProceso, scanner, entrada, llamada, pc, estado_prev, resultado, primera,
                   varsPlaneta, varsEclipses>>

\* the loop has ended: flush, sort, return
CieloCerrar ==
    /\ scanner = "cielo" /\ pc = "bucle" /\ ~(fecha <= last_end)
    /\ \E r_ini \in Consultas(mediodia(inicio_day), Rango(planetas)) :
        \E r_fin \in ConsultasEn(Recordar(mediodia(inicio_day), r_ini),
                                 mediodia(final_day), Rango(planetas)) :
            LET o == CerrarCielo(out, ventanas, last_fin)
            IN /\ out' = o
               /\ resultado' = Some(ConPosiciones(
                    Resultado(planetas, o,
                        [p \in DOMAIN o |-> [j \in 1..Len(o[p]) |-> KeyCielo(o[p][j])]]),
                    PosicionesExtremos(planetas, r_ini, r_fin)))
               /\ efem' = RecordarEn(Recordar(mediodia(inicio_day), r_ini),
                                     mediodia(final_day), r_fin)
    /\ pc' = "fin"
    /\ UNCHANGED <<visitados, varsProceso, scanner, entrada, llamada, fecha, ventanas, estado_prev, primera,
                   varsPlaneta, varsEclipses>>

----------------------------------------------------------------------------
(* calcular_transitos_natal *)

\* int(lon_now // 30) % 12
SignoIdx(lon) == (lon \div 300) % 12

\* a lookup whose intervals are open at the cusp and closed at the next one
obtener_casa_intervalo_cerrado(long_ec, cuspides) ==
    LET dentro(i) ==
            LET a == cuspides[i]
                b == cuspides[(i % 12) + 1]
                long_n == IF b < a /\ long_ec <= a THEN long_ec + 3600 ELSE long_ec
                b_n == IF b < a THEN b + 3600 ELSE b
            IN a < long_n /\ long_n <= b_n
    IN IF \E i \in 1..12 : dentro(i)
       THEN CHOOSE i \in 1..12 : dentro(i) /\ \A j \in 1..(i - 1) : ~dentro(j)
       ELSE 12

obtener_casa_desde_cuspides(long_ec, cuspides) ==
    LET dentro(i) ==
            LET a == cuspides[i]
                b == cuspides[(i % 12) + 1]
                long_n == IF b < a /\ long_ec < a THEN long_ec + 3600 ELSE long_ec
                b_n == IF b < a THEN b + 3600 ELSE b
            IN a <= long_n /\ long_n < b_n
    IN IF \E i \in 1..12 : dentro(i)
       THEN CHOOSE i \in 1..12 : dentro(i) /\ \A j \in 1..(i - 1) : ~dentro(j)
       ELSE 12

obtener_casa_desde_cuspides_o_wholesign(long_ec, cuspides, sistema) ==
    IF sistema = "W"
    THEN LET signo_punto == (long_ec \div 300) % 12
             signo_asc == (cuspides[1] \div 300) % 12
         IN ((signo_punto - signo_asc) % 12) + 1
    ELSE obtener_casa_desde_cuspides(long_ec, cuspides)

\* st = [estado_prev, ventanas, out] in the three steps below

\* a sign ingress that leaves the stored sign as it was
PasoSignoSinActualizar(st, p, lon_now, fch) ==
    LET signo_idx == SignoIdx(lon_now)
        prev_signo == st.estado_prev[p].signo_idx
    IN IF prev_signo = None
       THEN [st EXCEPT !.estado_prev[p].signo_idx = Some(signo_idx)]
       ELSE IF Val(prev_signo) # signo_idx
       THEN [st EXCEPT !.out[p] = Append(@,
                          [tipo |-> "cambio_signo", planeta |-> p,
                           signo_anterior |-> Val(prev_signo),
                           signo_nuevo |-> signo_idx, fecha |-> fecha_str(fch)])]
       ELSE st

\* sign ingress of body p
PasoSigno(st, p, lon_now, fch) ==
    LET signo_idx == SignoIdx(lon_now)
        prev_signo == st.estado_prev[p].signo_idx
    IN IF prev_signo = None
       THEN [st EXCEPT !.estado_prev[p].signo_idx = Some(signo_idx)]
       ELSE IF Val(prev_signo) # signo_idx
       THEN [st EXCEPT !.out[p] = Append(@,
                          [tipo |-> "cambio_signo", planeta |-> p,
                           signo_anterior |-> Val(prev_signo),
                           signo_nuevo |-> signo_idx, fecha |-> fecha_str(fch)]),
                       !.estado_prev[p].signo_idx = Some(signo_idx)]
       ELSE st

\* a house step that falls back on the whole-sign house counted from
\* Aries when there is no set of 12 cusps
PasoCasaPorDefecto(st, p, lon_now, fch) ==
    LET casa_now == IF Truthy(entrada.cuspides) /\ Len(Val(entrada.cuspides)) = 12
                    THEN obtener_casa_desde_cuspides_o_wholesign(
                             lon_now, Val(entrada.cuspides), entrada.sistema)
                    ELSE SignoIdx(lon_now) + 1
        prev_casa == st.estado_prev[p].casa
    IN IF prev_casa = None
       THEN [st EXCEPT !.estado_prev[p].casa = Some(casa_now)]
       ELSE IF Val(prev_casa) # casa_now
       THEN [st EXCEPT !.out[p] = Append(@,
                          [tipo |-> "cambio_casa", planeta |-> p,
                           casa_anterior |-> Val(prev_casa),
                           casa_nueva |-> casa_now, fecha |-> fecha_str(fch)]),
                       !.estado_prev[p].casa = Some(casa_now)]
       ELSE st

\* house ingress of body p, only with a set of 12 cusps
PasoCasa(st, p, lon_now, fch) ==
    IF Truthy(entrada.cuspides) /\ Len(Val(entrada.cuspides)) = 12
    THEN LET casa_now == obtener_casa_desde_cuspides_o_wholesign(
                             lon_now, Val(entrada.cuspides), entrada.sistema)
             prev_casa == st.estado_prev[p].casa
         IN IF prev_casa = None
            THEN [st EXCEPT !.estado_prev[p].casa = Some(casa_now)]
            ELSE IF Val(prev_casa) # casa_now
            THEN [st EXCEPT !.out[p] = Append(@,
                               [tipo |-> "cambio_casa", planeta |-> p,
                                casa_anterior |-> Val(prev_casa),
                                casa_nueva |-> casa_now, fecha |-> fecha_str(fch)]),
                            !.estado_prev[p].casa = Some(casa_now)]
            ELSE st
    ELSE st

\* a station step that takes an unseeded state for direct motion
PasoRetroSinSiembra(st, p, vel, fch) ==
    LET prev_retro == IF st.estado_prev[p].retro = None THEN Some(FALSE)
                      ELSE st.estado_prev[p].retro
    IN IF vel # None
       THEN LET is_retro == Val(vel) < 0
            IN IF Val(prev_retro) # is_retro
               THEN [st EXCEPT !.estado_prev[p].retro = Some(is_retro),
                               !.out[p] = Append(@,
                                  [tipo |-> IF is_retro THEN "retro_inicio" ELSE "retro_fin",
                                   planeta |-> p, fecha |-> fecha_str(fch)])]
               ELSE [st EXCEPT !.estado_prev[p].retro = Some(is_retro)]
       ELSE st

\* a station step that takes a body at rest for a retrograde one
PasoRetroEnReposo(st, p, vel, fch) ==
    LET prev_retro == st.estado_prev[p].retro
    IN IF prev_retro = None /\ vel # None
       THEN [st EXCEPT !.estado_prev[p].retro = Some(Val(vel) <= 0)]
       ELSE IF vel # None
       THEN LET is_retro == Val(vel) <= 0
            IN IF Val(prev_retro) # is_retro
               THEN [st EXCEPT !.estado_prev[p].retro = Some(is_retro),
                               !.out[p] = Append(@,
                                  [tipo |-> IF is_retro THEN "retro_inicio" ELSE "retro_fin",
                                   planeta |-> p, fecha |-> fecha_str(fch)])]
               ELSE st
       ELSE st

\* station of body p; vel is None when the speed call raised
PasoRetro(st, p, vel, fch) ==
    LET prev_retro == st.estado_prev[p].retro
    IN IF prev_retro = None /\ vel # None
       THEN [st EXCEPT !.estado_prev[p].retro = Some(Val(vel) < 0)]
       ELSE IF vel # None
       THEN LET is_retro == Val(vel) < 0
            IN IF Val(prev_retro) # is_retro
               THEN [st EXCEPT !.estado_prev[p].retro = Some(is_retro),
                               !.out[p] = Append(@,
                                  [tipo |-> IF is_retro THEN "retro_inicio" ELSE "retro_fin",
                                   planeta |-> p, fecha |-> fecha_str(fch)])]
               ELSE st
       ELSE st

\* an orb that takes 2.0 for a natal point without a base orb
OrbeNatalPorDefecto(p, natal_name) ==
    Min(OrbeBase(p, ORBE_DEFECTO), OrbeBase(natal_name, ORBE_DEFECTO))

\* orbe of a moving body and a natal point
OrbeNatal(p, natal_name) ==
    Min(OrbeBase(p, ORBE_DEFECTO),
        OrbeBase(natal_name, OrbeBase(p, ORBE_DEFECTO)))

EventoNatal(p, natal_name, asp_name, estado, fin) ==
    [tipo |-> "aspecto", planeta_transito |-> p, planeta_natal |-> natal_name,
     aspecto |-> asp_name, fecha_inicio |-> estado.fecha_inicio,
     fecha_exacto |-> estado.fecha_exacto, fecha_fin |-> fin]

\* the body of the innermost loop for one natal point and one aspect
VentanaNatal(st, p, natal, asp, lon_now, fch) ==
    LET orbe == OrbeNatal(p, natal.nombre)
        dist == distancia_aspecto(lon_now, natal.longitud, asp.ang)
        clave == <<p, natal.nombre, asp.nombre>>
        i == IndiceVentana(st.ventanas, clave)
    IN IF dist <= orbe /\ i = 0
       THEN [st EXCEPT !.ventanas = Append(@, VentanaNueva(clave, fch, dist))]
       ELSE IF i # 0 /\ st.ventanas[i].activo
       THEN LET e0 == st.ventanas[i]
                e1 == Acercar(e0, dist, fch)
            IN IF dist > orbe
               THEN [st EXCEPT !.ventanas[i] = [e1 EXCEPT !.activo = FALSE],
                               !.out[p] = Append(@,
                                  EventoNatal(p, natal.nombre, asp.nombre, e1,
                                              fecha_str(fch)))]
               ELSE [st EXCEPT !.ventanas[i] = e1]
       ELSE st

\* the (natal point, aspect) pairs in the order of the two nested loops
ClavesNatal(pos) ==
    [x \in 1..(Len(pos) * Len(ASPECTOS)) |->
        <<((x - 1) \div Len(ASPECTOS)) + 1, ((x - 1) % Len(ASPECTOS)) + 1>>]

RECURSIVE BucleAspectosNatal(_, _, _, _, _, _)
BucleAspectosNatal(st, p, pos, claves, lon_now, fch) ==
    IF claves = <<>> THEN st
    ELSE LET st1 == VentanaNatal(st, p, pos[Head(claves)[1]],
                                 ASPECTOS[Head(claves)[2]], lon_now, fch)
         IN IF Evaluado(st1)
            THEN BucleAspectosNatal(st1, p, pos, Tail(claves), lon_now, fch)
            ELSE st1

\* a body step that forgets the body's state at a sample without longitude
PlanetaNatalOlvida(st, p, resp, fch) ==
    IF resp.lon = None
    THEN [st EXCEPT !.estado_prev[p] =
                        [signo_idx |-> None, casa |-> None, retro |-> None]]
    ELSE LET lon_now == Val(resp.lon)
             s1 == PasoSigno(st, p, lon_now, fch)
             s2 == PasoCasa(s1, p, lon_now, fch)
             s3 == PasoRetro(s2, p, resp.vel, fch)
         IN IF Truthy(entrada.posiciones_natales)
            THEN BucleAspectosNatal(s3, p, Val(entrada.posiciones_natales),
                                    ClavesNatal(Val(entrada.posiciones_natales)),
                                    lon_now, fch)
            ELSE s3

\* the body of "for p in planetas" for one body and one sample
PlanetaNatal(st, p, resp, fch) ==
    IF resp.lon = None THEN st
    ELSE LET lon_now == Val(resp.lon)
             s1 == PasoSigno(st, p, lon_now, fch)
             s2 == PasoCasa(s1, p, lon_now, fch)
             s3 == PasoRetro(s2, p, resp.vel, fch)
         IN IF Truthy(entrada.posiciones_natales)
            THEN BucleAspectosNatal(s3, p, Val(entrada.posiciones_natales),
                                    ClavesNatal(Val(entrada.posiciones_natales)),
                                    lon_now, fch)
            ELSE s3

RECURSIVE BucleNatal(_, _, _, _)
BucleNatal(st, ps, respuestas, fch) ==
    IF ps = <<>> THEN st
    ELSE LET st1 == PlanetaNatal(st, Head(ps), respuestas[Head(ps)], fch)
         IN IF Evaluado(st1)
            THEN BucleNatal(st1, Tail(ps), respuestas, fch)
            ELSE st1

\* the flush after the loop: one event per window still active
RECURSIVE CerrarNatal(_, _, _)
CerrarNatal(o, vs, fin) ==
    IF vs = <<>> THEN o
    ELSE LET estado == Head(vs)
             p == estado.clave[1]
             o1 == IF SigueActiva(estado)
                   THEN [o EXCEPT ![p] = Append(@,
                            EventoNatal(p, estado.clave[2], estado.clave[3],
                                        estado, fin))]
                   ELSE o
         IN IF Evaluado(o1) THEN CerrarNatal(o1, Tail(vs), fin) ELSE o1

\* _key of calcular_transitos_natal: fecha_exacto, else fecha
KeyNatal(ev) ==
    IF "fecha_exacto" \in DOMAIN ev THEN strptime(ev.fecha_exacto)
    ELSE strptime(ev.fecha)

\* one iteration of the while loop
NatalMuestra ==
    /\ scanner = "natal" /\ pc = "bucle" /\ fecha <= last_end
    /\ \E respuestas \in Consultas(fecha, Rango(planetas)) :
        LET st == BucleNatal([estado_prev |-> estado_prev, ventanas |-> ventanas,
                              out |-> out], planetas, respuestas, fecha)
        IN /\ estado_prev' = st.estado_prev
           /\ ventanas' = st.ventanas
           /\ out' = st.out
           /\ efem' = Recordar(fecha, respuestas)
    /\ fecha' = fecha + delta
    /\ visitados' = Append(visitados, fecha)
    /\ UNCHANGED <<varsProceso, scanner, entrada, llamada, pc, resultado, primera, varsPlaneta,
                   varsEclipses>>

\* the loop has ended: flush, sort, return
NatalCerrar ==
    /\ scanner = "natal" /\ pc = "bucle" /\ ~(fecha <= last_end)
    /\ \E r_ini \in Consultas(mediodia(inicio_day), Rango(planetas)) :
        \E r_fin \in ConsultasEn(Recordar(mediodia(inicio_day), r_ini),
                                 mediodia(final_day), Rango(planetas)) :
            LET o == CerrarNatal(out, ventanas, last_fin)
            IN /\ out' = o
               /\ resultado' = Some(ConPosiciones(
                    Resultado(planetas, o,
                        [p \in DOMAIN o |-> [j \in 1..Len(o[p]) |-> KeyNatal(o[p][j])]]),
                    PosicionesExtremos(planetas, r_ini, r_fin)))
               /\ efem' = RecordarEn(Recordar(mediodia(inicio_day), r_ini),
                                     mediodia(final_day), r_fin)
    /\ pc' = "fin"
    /\ UNCHANGED <<visitados, varsProceso, scanner, entrada, llamada, fecha, ventanas, estado_prev, primera,
                   varsPlaneta, varsEclipses>>

----------------------------------------------------------------------------
(* main_api.py: catalogues and refiners *)

\* ASPECTOS of main_api.py: angle and orb per aspect
ASPECTOS_API == << [nombre |-> "conjuncion", angulo |-> 0,    orbe |-> 60],
                   [nombre |-> "sextil",     angulo |-> 600,  orbe |-> 40],
                   [nombre |-> "cuadratura", angulo |-> 900,  orbe |-> 50],
                   [nombre |-> "trigono",    angulo |-> 1200, orbe |-> 50],
                   [nombre |-> "oposicion",  angulo |-> 1800, orbe |-> 60] >>

PLANETAS_RETORNO == {"JUPITER", "SATURNO", "QUIRON", "NODO_NORTE"}

\* hours of timedelta(days=1), and the cadences of the fast bodies
HORAS_DIA == 24
DELTA_LUNA == 1
DELTA_RAPIDO == 12

\* "for _ in range(22)" of both refiners
ITERACIONES == 22

\* Instants (Julian days) of main_api.py are integers in units of
\* 1/TICKS day counted from 00:00 of fecha_inicio, fine enough for every
\* midpoint of the refiners to be exact.
TICKS == 2 ^ (ITERACIONES + 1)

\* swe.julday(y, m, d, 12.0) of the day holding the cursor (in hours)
julday12(fa) == (fa \div HORAS_DIA) * TICKS + TICKS \div 2

\* the calendar day of swe.revjul(jd), as printed by f"{y}-{m:02d}-{d:02d}"
revjul(jd) == jd \div TICKS

\* fecha_actual.strftime("%Y-%m-%d")
fecha_dia(fa) == fa \div HORAS_DIA

\* swe.calc_ut(jd, planeta_num)[0][0] % 360 for the answers ef so far: the
\* answer at noon of day k is ef[k].lon (None when the call raises), and
\* between the noons of days k-1 and k the longitude is ef[k].previo
calc_ut(ef, jd) ==
    LET k == jd \div TICKS
        r == jd % TICKS
    IN IF r = TICKS \div 2 THEN ef[k].lon
       ELSE IF r < TICKS \div 2 THEN Some(ef[k].previo)
       ELSE Some(ef[k + 1].previo)

\* a distance to the target angle alone, without its complement 360 - angle
distancia_sin_complemento(diff_raw0, angulo_objetivo) ==
    Abs((diff_raw0 % 3600) - angulo_objetivo)

distancia_aspecto_api(diff_raw0, angulo_objetivo) ==
    LET diff_raw == diff_raw0 % 3600
    IN IF angulo_objetivo = 0 THEN Min(diff_raw, 3600 - diff_raw)
       ELSE IF angulo_objetivo = 1800 THEN Abs(diff_raw - 1800)
       ELSE Min(Abs(diff_raw - angulo_objetivo),
                Abs(diff_raw - (3600 - angulo_objetivo)))

\* the loop of encontrar_momento_aspecto: the final bracket, None when a
\* provider call raises
RECURSIVE BuscarMomento(_, _, _, _, _, _)
BuscarMomento(ef, n, jd1, jd2, natal_long, angulo_objetivo) ==
    IF n = 0 THEN Some(<<jd1, jd2>>)
    ELSE LET mid == (jd1 + jd2) \div 2
             lon1 == calc_ut(ef, jd1)
             lonm == calc_ut(ef, mid)
         IN IF lon1 = None \/ lonm = None THEN None
            ELSE LET d1 == distancia_aspecto_api((Val(lon1) - natal_long) % 3600,
                                                 angulo_objetivo)
                     dm == distancia_aspecto_api((Val(lonm) - natal_long) % 3600,
                                                 angulo_objetivo)
                 IN IF d1 < dm
                    THEN BuscarMomento(ef, n - 1, jd1, mid, natal_long, angulo_objetivo)
                    ELSE BuscarMomento(ef, n - 1, mid, jd2, natal_long, angulo_objetivo)

\* (jd_exacto, lon_exacta), None when a provider call raises
encontrar_momento_aspecto(ef, jd1, jd2, natal_long, angulo_objetivo) ==
    LET b == BuscarMomento(ef, ITERACIONES, jd1, jd2, natal_long, angulo_objetivo)
    IN IF b = None THEN None
       ELSE LET jd_exacto == (Val(b)[1] + Val(b)[2]) \div 2
                lon_exacta == calc_ut(ef, jd_exacto)
            IN IF lon_exacta = None THEN None
               ELSE Some([jd_exacto |-> jd_exacto, lon_exacta |-> Val(lon_exacta)])

\* a bisection that keeps the half whose ends have the same sign
RECURSIVE encontrar_ingreso_al_reves(_, _, _, _)
encontrar_ingreso_al_reves(ef, n, jd1, jd2) ==
    IF n = 0 THEN Some(jd2)
    ELSE LET mid == (jd1 + jd2) \div 2
             lon1 == calc_ut(ef, jd1)
             lonm == calc_ut(ef, mid)
         IN IF lon1 = None \/ lonm = None THEN None
            ELSE IF Val(lon1) \div 300 = Val(lonm) \div 300
            THEN encontrar_ingreso_al_reves(ef, n - 1, jd1, mid)
            ELSE encontrar_ingreso_al_reves(ef, n - 1, mid, jd2)

\* the instant returned (jd2), None when a provider call raises
RECURSIVE encontrar_ingreso_signo(_, _, _, _)
encontrar_ingreso_signo(ef, n, jd1, jd2) ==
    IF n = 0 THEN Some(jd2)
    ELSE LET mid == (jd1 + jd2) \div 2
             lon1 == calc_ut(ef, jd1)
             lonm == calc_ut(ef, mid)
         IN IF lon1 = None \/ lonm = None THEN None
            ELSE IF Val(lon1) \div 300 = Val(lonm) \div 300
            THEN encontrar_ingreso_signo(ef, n - 1, mid, jd2)
            ELSE encontrar_ingreso_signo(ef, n - 1, jd1, mid)

\* The refiners as calcular_transitos_planeta calls them.  Its second
\* invocation is the reference scan of the refinement comparison: there
\* both refiners return the sample instant jd2 unchanged.
IngresoSigno(ef, jd1, jd2) ==
    IF llamada = 1 THEN encontrar_ingreso_signo(ef, ITERACIONES, jd1, jd2)
    ELSE Some(jd2)

MomentoAspecto(ef, jd1, jd2, natal_long, angulo_objetivo) ==
    IF llamada = 1
    THEN encontrar_momento_aspecto(ef, jd1, jd2, natal_long, angulo_objetivo)
    ELSE Some([jd_exacto |-> jd2, lon_exacta |-> Val(calc_ut(ef, jd2))])

----------------------------------------------------------------------------
(* calcular_transitos_planeta *)

f_final == entrada.dias * HORAS_DIA

DeltaPlaneta(nombre_planeta) ==
    IF nombre_planeta = "LUNA" THEN DELTA_LUNA
    ELSE IF nombre_planeta \in {"SOL", "MERCURIO", "VENUS", "MARTE"} THEN DELTA_RAPIDO
    ELSE HORAS_DIA

\* obtener_casa: whole sign from the ascendant's sign, or the cusps given
obtener_casa(long_ec) ==
    IF entrada.sistema_casas = "W"
    THEN LET signo_ascendente == (entrada.ascendente \div 300) % 12
             signo_punto == (long_ec \div 300) % 12
         IN ((signo_punto - signo_ascendente) % 12) + 1
    ELSE obtener_casa_desde_cuspides(long_ec, entrada.cuspides_placidus)

IndiceEstado(es, clave) ==
    IF \E i \in 1..Len(es) : es[i].clave = clave
    THEN CHOOSE i \in 1..Len(es) : es[i].clave = clave
    ELSE 0

EsRetorno(nombre_aspecto, nombre_natal) ==
    /\ nombre_aspecto = "conjuncion"
    /\ entrada.nombre_planeta = nombre_natal
    /\ entrada.nombre_planeta \in PLANETAS_RETORNO

EventoPlaneta(estado, fecha_fin) ==
    [tipo |-> IF EsRetorno(estado.nombre_aspecto, estado.nombre_natal)
              THEN "retorno_planeta" ELSE "aspecto",
     planeta_transito |-> entrada.nombre_planeta,
     planeta_natal |-> estado.nombre_natal,
     aspecto |-> estado.nombre_aspecto,
     fecha_inicio |-> estado.fecha_inicio,
     fecha_exacto |-> estado.fecha_exacto,
     fecha_fin |-> fecha_fin]

\* One (natal point, aspect) of the aspect loop.
\* st = [eventos, estados_aspectos, abiertas, exc]; exc is TRUE once an
\* exception left the try block.
VentanaPlaneta(st, ef, natal, asp, longitud, fa) ==
    LET jd == julday12(fa)
        natal_long == natal.longitud
        diff_raw == (longitud - natal_long) % 3600
        dist == distancia_aspecto_api(diff_raw, asp.angulo)
        clave == <<entrada.nombre_planeta, natal.nombre, asp.nombre>>
        i == IndiceEstado(st.estados_aspectos, clave)
        dentro_orbe == dist <= asp.orbe
        nuevo == [clave |-> clave, activo |-> TRUE, fecha_inicio |-> fecha_dia(fa),
                  jd_inicio |-> jd, nombre_natal |-> natal.nombre,
                  nombre_aspecto |-> asp.nombre, fecha_exacto |-> fecha_dia(fa),
                  jd_exacto |-> jd]
        guardar(e) == IF i = 0 THEN Append(st.estados_aspectos, e)
                      ELSE [st.estados_aspectos EXCEPT ![i] = e]
    IN IF st.exc THEN st
       ELSE IF (i = 0 \/ ~st.estados_aspectos[i].activo) /\ dentro_orbe
       THEN IF anterior # None
            THEN LET m == MomentoAspecto(ef, Val(anterior).jd_prev, jd,
                                         natal_long, asp.angulo)
                 IN IF m = None THEN [st EXCEPT !.exc = TRUE]
                    ELSE [st EXCEPT
                            !.estados_aspectos =
                                guardar([nuevo EXCEPT
                                           !.fecha_exacto = revjul(Val(m).jd_exacto),
                                           !.jd_exacto = Val(m).jd_exacto]),
                            !.abiertas = Append(@, clave)]
            ELSE [st EXCEPT !.estados_aspectos = guardar(nuevo),
                            !.abiertas = Append(@, clave)]
       ELSE IF i # 0 /\ st.estados_aspectos[i].activo /\ ~dentro_orbe
       THEN [st EXCEPT
               !.eventos = Append(@, EventoPlaneta(st.estados_aspectos[i], fecha_dia(fa))),
               !.estados_aspectos[i].activo = FALSE]
       ELSE st

RECURSIVE BucleAspectosPlaneta(_, _, _, _, _, _)
BucleAspectosPlaneta(st, ef, pos, claves, longitud, fa) ==
    IF claves = <<>> THEN st
    ELSE LET st1 == VentanaPlaneta(st, ef, pos[Head(claves)[1]],
                                   ASPECTOS_API[Head(claves)[2]], longitud, fa)
         IN IF Evaluado(st1)
            THEN BucleAspectosPlaneta(st1, ef, pos, Tail(claves), longitud, fa)
            ELSE st1

\* "CAMBIO DE SIGNO"
SignoPlaneta(st, ef, signo_actual_idx, fa) ==
    IF anterior # None /\ signo_actual_idx # Val(anterior).signo_anterior
    THEN LET jd_prev_signo == julday12(Val(anterior).fecha_prev)
             jd_ingreso == IngresoSigno(ef, jd_prev_signo, julday12(fa))
         IN IF jd_ingreso = None THEN [st EXCEPT !.exc = TRUE]
            ELSE [st EXCEPT !.eventos = Append(@,
                    [tipo |-> "cambio_signo", planeta |-> entrada.nombre_planeta,
                     fecha |-> revjul(Val(jd_ingreso)),
                     signo_anterior |-> Val(anterior).signo_anterior,
                     signo_nuevo |-> signo_actual_idx])]
    ELSE st

\* "CAMBIO DE CASA"
CasaPlaneta(st, casa_actual, fa) ==
    IF ~st.exc /\ anterior # None /\ casa_actual # Val(anterior).casa_anterior
    THEN [st EXCEPT !.eventos = Append(@,
            [tipo |-> "cambio_casa", planeta |-> entrada.nombre_planeta,
             fecha |-> fecha_dia(fa),
             casa_anterior |-> Val(anterior).casa_anterior,
             casa_nueva |-> casa_actual])]
    ELSE st

\* "RETROGRADO / DIRECTO"
RetroPlaneta(st, retrogrado_actual, fa) ==
    IF ~st.exc /\ anterior # None /\ retrogrado_actual # Val(anterior).retrogrado_anterior
    THEN [st EXCEPT !.eventos = Append(@,
            [tipo |-> IF retrogrado_actual THEN "retrogrado_inicio" ELSE "retrogrado_fin",
             planeta |-> entrada.nombre_planeta, fecha |-> fecha_dia(fa)])]
    ELSE st

\* the try block for one cursor position, given the provider's answers ef
\* and the answer res at this position's instant
CuerpoPlaneta(ef, res, fa) ==
    LET st0 == [eventos |-> eventos, estados_aspectos |-> estados_aspectos,
                abiertas |-> abiertas, exc |-> FALSE]
    IN IF res.lon = None THEN [st0 EXCEPT !.exc = TRUE]
       ELSE LET longitud == Val(res.lon) % 3600
                signo_actual_idx == (longitud \div 300) % 12
                casa_actual == obtener_casa(longitud)
                retrogrado_actual == Val(res.vel) < 0
                s1 == SignoPlaneta(st0, ef, signo_actual_idx, fa)
                s2 == CasaPlaneta(s1, casa_actual, fa)
                s3 == RetroPlaneta(s2, retrogrado_actual, fa)
            IN IF Truthy(entrada.posiciones_natales) /\ Evaluado(s3)
               THEN BucleAspectosPlaneta(s3, ef, Val(entrada.posiciones_natales),
                                         ClavesNatal(Val(entrada.posiciones_natales)),
                                         longitud, fa)
               ELSE s3

\* signo_anterior, casa_anterior, retrogrado_anterior, jd_prev, fecha_prev
\* after a position whose try block completed
AnteriorTras(res, fa) ==
    LET longitud == Val(res.lon) % 3600
    IN Some([signo_anterior |-> (longitud \div 300) % 12,
             casa_anterior |-> obtener_casa(longitud),
             retrogrado_anterior |-> Val(res.vel) < 0,
             jd_prev |-> julday12(fa),
             fecha_prev |-> fa])

\* the provider's answers for the noon of a day and the day before it
RespuestasDia(k) ==
    LET previos == IF k = 0 THEN {220} ELSE {220, 250, 305}
        \* the sky of the scan: bodies near 25.0, or bodies that may be at 3.0
        posibles == IF entrada.cielo = "aries" THEN {<<30, 1>>, <<250, 1>>}
                    ELSE {<<230, 1>>, <<250, 1>>, <<250, -1>>, <<310, 1>>,
                          <<310, -1>>}
    IN {[lon |-> Some(r[1]), vel |-> Some(r[2]), previo |-> b] :
            r \in posibles, b \in previos}
       \cup {[lon |-> None, vel |-> None, previo |-> b] : b \in previos}

ConsultasDia(k) == IF k \in DOMAIN efem THEN {efem[k]} ELSE RespuestasDia(k)

\* one iteration of the while loop
PlanetaMuestra ==
    /\ scanner = "planeta" /\ pc = "bucle" /\ fecha <= f_final
    /\ \E res \in ConsultasDia(fecha_dia(fecha)) :
        LET ef == Recordar(fecha_dia(fecha), res)
            st == CuerpoPlaneta(ef, res, fecha)
        IN /\ efem' = ef
           /\ eventos' = st.eventos
           /\ estados_aspectos' = st.estados_aspectos
           /\ abiertas' = st.abiertas
           /\ anterior' = IF st.exc THEN anterior ELSE AnteriorTras(res, fecha)
    /\ fecha' = fecha + DeltaPlaneta(entrada.nombre_planeta)
    /\ UNCHANGED <<visitados, varsProceso, scanner, entrada, llamada, pc, ventanas, estado_prev, out,
                   resultado, primera, varsEclipses>>

\* "Cerrar aspectos aun activos al final del periodo"
RECURSIVE CerrarPlaneta(_, _)
CerrarPlaneta(evs, es) ==
    IF es = <<>> THEN evs
    ELSE LET evs1 == IF SigueActiva(Head(es))
                     THEN Append(evs, EventoPlaneta(Head(es), entrada.dias))
                     ELSE evs
         IN IF Evaluado(evs1) THEN CerrarPlaneta(evs1, Tail(es)) ELSE evs1

\* fecha_evento: fecha, else fecha_inicio
KeyPlaneta(ev) == IF "fecha" \in DOMAIN ev THEN ev.fecha ELSE ev.fecha_inicio

\* posicion_inicial / posicion_final of one provider answer
Posicion(res) ==
    [signo |-> ((Val(res.lon) % 3600) \div 300) % 12,
     casa |-> obtener_casa(Val(res.lon) % 3600),
     retrogrado |-> Val(res.vel) < 0,
     longitud |-> Val(res.lon) % 3600]

\* the loop has ended: flush, initial and final positions, sort, return
PlanetaCerrar ==
    /\ scanner = "planeta" /\ pc = "bucle" /\ ~(fecha <= f_final)
    /\ \E res_inicio \in ConsultasDia(0), res_final \in ConsultasDia(entrada.dias) :
        LET evs == IF Truthy(entrada.posiciones_natales)
                   THEN CerrarPlaneta(eventos, estados_aspectos)
                   ELSE eventos
            falla == res_inicio.lon = None \/ res_final.lon = None
        IN /\ eventos' = evs
           /\ resultado' = Some(
                [planeta |-> entrada.nombre_planeta,
                 posicion_inicial |-> IF falla THEN None ELSE Some(Posicion(res_inicio)),
                 posicion_final |-> IF falla THEN None ELSE Some(Posicion(res_final)),
                 eventos |-> sorted(evs, [j \in 1..Len(evs) |-> KeyPlaneta(evs[j])])])
    /\ pc' = "fin"
    /\ UNCHANGED <<visitados, varsProceso, scanner, entrada, llamada, fecha, ventanas, estado_prev, out,
                   primera, efem, anterior, estados_aspectos, abiertas,
                   varsEclipses>>

----------------------------------------------------------------------------
(* calcular_fases_lunares: the monthly filter *)

\* Raw detections are records [tipo, subtipo, fecha]; a fecha
\* "YYYY-MM-DD HH:MM:SS" is the integer month * 100 + instant within the
\* month, whose order is the order of the strings.
SUBTIPOS == <<"Luna Nueva", "Luna Llena">>

FechasFases == {101, 102, 201, 202}

\* f["fecha"][:7]
Mes(f) == f.fecha \div 100

\* f"{f['subtipo']}_{mes}"
ClaveFase(f) == <<f.subtipo, Mes(f)>>

\* a filter that keeps the last detection of a key
RetenerUltima(fases_filtradas, f) ==
    IF \E i \in 1..Len(fases_filtradas) : fases_filtradas[i].clave = ClaveFase(f)
    THEN [i \in 1..Len(fases_filtradas) |->
            IF fases_filtradas[i].clave = ClaveFase(f)
            THEN [clave |-> ClaveFase(f), f |-> f]
            ELSE fases_filtradas[i]]
    ELSE Append(fases_filtradas, [clave |-> ClaveFase(f), f |-> f])

\* "if clave not in fases_filtradas: fases_filtradas[clave] = f", on the
\* dict kept as a sequence of [clave, f] in insertion order
Retener(fases_filtradas, f) ==
    IF \E i \in 1..Len(fases_filtradas) : fases_filtradas[i].clave = ClaveFase(f)
    THEN fases_filtradas
    ELSE Append(fases_filtradas, [clave |-> ClaveFase(f), f |-> f])

RECURSIVE Filtro(_, _)
Filtro(fases_filtradas, fases) ==
    IF fases = <<>> THEN fases_filtradas
    ELSE LET ff == Retener(fases_filtradas, Head(fases))
         IN IF Evaluado(ff) THEN Filtro(ff, Tail(fases)) ELSE ff

\* list(fases_filtradas.values()) sorted by fecha
fases_unicas(fases) ==
    LET ff == Filtro(<<>>, fases)
        valores == [i \in 1..Len(ff) |-> ff[i].f]
    IN sorted(valores, [i \in 1..Len(valores) |-> valores[i].fecha])

\* the filter, the sort and the return
FasesFiltrar ==
    /\ scanner = "fases" /\ pc = "filtro"
    /\ resultado' = Some(fases_unicas(entrada.fases))
    /\ pc' = "fin"
    /\ UNCHANGED <<visitados, varsProceso, scanner, entrada, llamada, fecha, ventanas, estado_prev, out,
                   primera, efem, varsPlaneta, varsEclipses>>

----------------------------------------------------------------------------
(* _norm360, _ang_diff and distancia_aspecto applied to given arguments *)

\* the three functions applied to the arguments of entrada
Medir ==
    /\ scanner = "angulos" /\ pc = "medir"
    /\ resultado' = Some([norm_a |-> norm360(entrada.a),
                          norm_b |-> norm360(entrada.b),
                          diff_ab |-> ang_diff(entrada.a, entrada.b),
                          diff_ba |-> ang_diff(entrada.b, entrada.a),
                          dist |-> distancia_aspecto(entrada.a, entrada.b,
                                                     entrada.ang_obj),
                          dist_api |-> distancia_aspecto_api(
                                           (entrada.a - entrada.b) % 3600,
                                           entrada.ang_obj)])
    /\ pc' = "fin"
    /\ UNCHANGED <<visitados, varsProceso, scanner, entrada, llamada, fecha, ventanas, estado_prev, out,
                   primera, efem, varsPlaneta, varsEclipses>>

----------------------------------------------------------------------------
(* obtener_casa_desde_cuspides applied to given arguments *)

Ubicar ==
    /\ scanner = "casas" /\ pc = "medir"
    /\ resultado' = Some(obtener_casa_desde_cuspides(entrada.long_ec, entrada.cuspides))
    /\ pc' = "fin"
    /\ UNCHANGED <<visitados, varsProceso, scanner, entrada, llamada, fecha, ventanas, estado_prev, out,
                   primera, efem, varsPlaneta, varsEclipses>>

----------------------------------------------------------------------------
(* calcular_eclipses *)

\* Instants (Julian days) of calcular_eclipses are integers in hundredths
\* of an hour counted from 00:00 of fecha_inicio: a day is 24.00 hours.
CENTESIMAS_DIA == 2400

\* "jd = jd_inicio - 40" and "jd = jd_eclipse + 170", in days
MARGEN == 40
SALTO == 170

\* swe.julday(..., 0) of the first day and swe.julday(..., 23.99) of the last
jd_inicio == 0
jd_final == entrada.dias * CENTESIMAS_DIA + 2399

\* the first eclipse after every period explored
FUTURO == 400 * CENTESIMAS_DIA

\* the earliest eclipse at or after instant t in a sky whose eclipses are
\* cielo
Proximo(cielo, t) ==
    LET posteriores == {e \in cielo \cup {FUTURO} : e >= t}
    IN CHOOSE e \in posteriores : \A f \in posteriores : e <= f

\* The values res[1][0] may take for a search from instant t.  The
\* provider is external: "primero" answers the earliest eclipse at or
\* after t, "cualquiera" any eclipse of the sky at or after t.
Hallazgos(cielo, t) ==
    IF entrada.proveedor = "primero" THEN {Proximo(cielo, t)}
    ELSE {e \in cielo \cup {FUTURO} : e >= t}

sol_eclipse_when_glob(t) == Hallazgos(entrada.solares, t)

lun_eclipse_when(t) == Hallazgos(entrada.lunares, t)

\* _calc_long at the instant of an eclipse: a longitude, or None
LongitudesEclipse == {Some(450), None}

\* the record appended for an eclipse; fecha is the calendar day of
\* swe.revjul(jd_eclipse)
Eclipse(subtipo, planeta, jd_eclipse, long) ==
    [tipo |-> "eclipse", subtipo |-> subtipo,
     fecha |-> jd_eclipse \div CENTESIMAS_DIA,
     signo |-> long \div 300, grado |-> long % 300, planeta |-> planeta]

\* a cursor left on the eclipse just found
busqueda_sin_salto(jd_eclipse) == jd_eclipse

\* "jd = jd_eclipse + 170"
siguiente_busqueda(jd_eclipse) == jd_eclipse + SALTO * CENTESIMAS_DIA

\* a search step that reports an eclipse found before the period
BuscarSinInicio(subtipo, planeta, jd_eclipse) ==
    \E long \in LongitudesEclipse :
        IF long = None
        THEN pc' = "error" /\ UNCHANGED <<jd_busqueda, eclipses, hallados>>
        ELSE /\ eclipses' = Append(eclipses,
                                   Eclipse(subtipo, planeta, jd_eclipse, Val(long)))
             /\ hallados' = Append(hallados, [subtipo |-> subtipo, jd |-> jd_eclipse])
             /\ jd_busqueda' = siguiente_busqueda(jd_eclipse)
             /\ pc' = pc

\* One iteration of a "while True" search loop that has not met its
\* break; int(None // 30) raises when _calc_long returns None.
Buscar(subtipo, planeta, jd_eclipse) ==
    IF jd_eclipse >= jd_inicio
    THEN \E long \in LongitudesEclipse :
            IF long = None
            THEN pc' = "error" /\ UNCHANGED <<jd_busqueda, eclipses, hallados>>
            ELSE /\ eclipses' = Append(eclipses,
                                       Eclipse(subtipo, planeta, jd_eclipse, Val(long)))
                 /\ hallados' = Append(hallados,
                                       [subtipo |-> subtipo, jd |-> jd_eclipse])
                 /\ jd_busqueda' = siguiente_busqueda(jd_eclipse)
                 /\ pc' = pc
    ELSE /\ jd_busqueda' = siguiente_busqueda(jd_eclipse)
         /\ UNCHANGED <<pc, eclipses, hallados>>

\* one iteration of the loop of solar eclipses
EclipsesSolares ==
    /\ scanner = "eclipses" /\ pc = "solar"
    /\ \E jd_eclipse \in sol_eclipse_when_glob(jd_busqueda) :
          IF jd_eclipse > jd_final
          THEN /\ pc' = "lunar"
               /\ jd_busqueda' = jd_inicio - MARGEN * CENTESIMAS_DIA
               /\ UNCHANGED <<eclipses, hallados>>
          ELSE Buscar("solar", "SOL", jd_eclipse)
    /\ vueltas' = [vueltas EXCEPT !["solar"] = @ + 1]
    /\ UNCHANGED <<visitados, varsProceso, scanner, entrada, llamada, fecha, ventanas, estado_prev, out,
                   resultado, primera, efem, varsPlaneta>>

\* one iteration of the loop of lunar eclipses; its break returns eclipses
EclipsesLunares ==
    /\ scanner = "eclipses" /\ pc = "lunar"
    /\ \E jd_eclipse \in lun_eclipse_when(jd_busqueda) :
          IF jd_eclipse > jd_final
          THEN /\ pc' = "fin"
               /\ resultado' = Some(eclipses)
               /\ UNCHANGED <<jd_busqueda, eclipses, hallados>>
          ELSE Buscar("lunar", "LUNA", jd_eclipse) /\ UNCHANGED resultado
    /\ vueltas' = [vueltas EXCEPT !["lunar"] = @ + 1]
    /\ UNCHANGED <<visitados, varsProceso, scanner, entrada, llamada, fecha, ventanas, estado_prev, out,
                   primera, efem, varsPlaneta>>

----------------------------------------------------------------------------
(* Calls *)

Entrada(d, luna, pos, cusp, sis, perfil) ==
    [dias |-> d, incluir_luna |-> luna, posiciones_natales |-> pos,
     cuspides |-> cusp, sistema |-> sis, perfil |-> perfil]

EntradasCielo ==
    {Entrada(d, luna, None, None, "P", "lon") : d \in DiasFinales, luna \in BOOLEAN}

\* windows that outlive the call that made them
ventanas_heredadas(previas) == previas

\* "ventanas = {}" on entry, whatever an earlier call left behind
ventanas_al_entrar(previas) == <<>>

\* estado_prev on entry
estado_prev_al_entrar(e) ==
    [p \in {q \in Rango(PLANETAS) : q # "LUNA" \/ e.incluir_luna} |->
        [signo_idx |-> None, casa |-> None, retro |-> None]]

\* the event lists of out on entry
out_al_entrar(e) ==
    [p \in {q \in Rango(PLANETAS) : q # "LUNA" \/ e.incluir_luna} |-> <<>>]

\* the state of a scan of transitos.py before its first sample
Comienzo(sc, e) ==
    /\ scanner = sc
    /\ entrada = e
    /\ pc = "bucle"
    /\ fecha = inicio_day
    /\ ventanas = ventanas_al_entrar(<<>>)
    /\ estado_prev = estado_prev_al_entrar(e)
    /\ out = out_al_entrar(e)
    /\ resultado = None
    /\ anterior = None /\ estados_aspectos = <<>> /\ eventos = <<>> /\ abiertas = <<>>
    /\ jd_busqueda = 0 /\ eclipses = <<>> /\ hallados = <<>>
    /\ vueltas = [bucle \in {"solar", "lunar"} |-> 0]
    /\ visitados = <<>>

\* a second call of the same scanner with the same arguments, the provider
\* answering as it did (efem is kept)
Reinvocar ==
    /\ scanner \in {"cielo", "natal"} /\ pc = "fin" /\ llamada = 1
    /\ llamada' = llamada + 1
    /\ primera' = resultado
    /\ pc' = "bucle"
    /\ fecha' = inicio_day
    /\ visitados' = <<>>
    /\ ventanas' = ventanas_al_entrar(ventanas)
    /\ estado_prev' = estado_prev_al_entrar(entrada)
    /\ out' = out_al_entrar(entrada)
    /\ resultado' = None
    /\ UNCHANGED <<varsProceso, scanner, entrada, efem, varsPlaneta, varsEclipses>>

\* a third call, with the same dates and the same provider answers, now
\* with incluir_luna = False
ReinvocarSinLuna ==
    /\ scanner \in {"cielo", "natal"} /\ pc = "fin" /\ llamada = 2
    /\ entrada.incluir_luna
    /\ llamada' = llamada + 1
    /\ entrada' = [entrada EXCEPT !.incluir_luna = FALSE]
    /\ primera' = resultado
    /\ pc' = "bucle"
    /\ fecha' = inicio_day
    /\ visitados' = <<>>
    /\ ventanas' = ventanas_al_entrar(ventanas)
    /\ estado_prev' = estado_prev_al_entrar(entrada')
    /\ out' = out_al_entrar(entrada')
    /\ resultado' = None
    /\ UNCHANGED <<varsProceso, scanner, efem, varsPlaneta, varsEclipses>>

\* a second call of calcular_transitos_planeta with the same arguments and
\* the same provider answers, its refiners returning the sample instant
ReinvocarSinRefinar ==
    /\ scanner = "planeta" /\ pc = "fin" /\ llamada = 1
    /\ llamada' = llamada + 1
    /\ primera' = resultado
    /\ pc' = "bucle"
    /\ fecha' = inicio_day
    /\ anterior' = None /\ estados_aspectos' = <<>> /\ eventos' = <<>>
    /\ abiertas' = <<>>
    /\ resultado' = None
    /\ UNCHANGED <<visitados, varsProceso, scanner, entrada, efem, ventanas, estado_prev, out, varsEclipses>>

\* natal charts: a Sun at 30.0, and an Ascendant (no base orb) at 34.0
NatalSol == <<[nombre |-> "SOL", longitud |-> 300]>>
NatalSolAsc == <<[nombre |-> "SOL", longitud |-> 300],
                 [nombre |-> "ASC", longitud |-> 340]>>

\* cusps every 30 degrees from 3.0
Cuspides == [i \in 1..12 |-> 30 + 300 * (i - 1)]

EntradasNatal ==
    {Entrada(1, TRUE, Some(NatalSol), None, "P", "lon"),
     Entrada(0, TRUE, Some(NatalSolAsc), Some(Cuspides), "P", "lon"),
     Entrada(0, TRUE, Some(<<>>), Some(Cuspides), "W", "vel"),
     Entrada(1, TRUE, None, None, "P", "vel"),
     Entrada(-1, TRUE, Some(NatalSol), Some(Cuspides), "P", "lon"),
     Entrada(0, FALSE, Some(NatalSol), Some(Cuspides), "P", "lon"),
     Entrada(0, TRUE, None, Some(SubSeq(Cuspides, 1, 11)), "P", "lon")}

NatalSaturno == <<[nombre |-> "SATURNO", longitud |-> 300]>>
NatalSaturnoSol == <<[nombre |-> "SATURNO", longitud |-> 300],
                     [nombre |-> "SOL", longitud |-> 290]>>

EntradaPlaneta(nombre, d, pos, sis) ==
    [nombre_planeta |-> nombre, dias |-> d, posiciones_natales |-> pos,
     sistema_casas |-> sis, cuspides_placidus |-> Cuspides,
     ascendente |-> Cuspides[1], carta |-> None, cielo |-> "tauro"]

SIGNOS == <<"ARIES", "TAURO", "GEMINIS", "CANCER", "LEO", "VIRGO", "LIBRA",
            "ESCORPIO", "SAGITARIO", "CAPRICORNIO", "ACUARIO", "PISCIS">>

CUERPOS_NATALES_RELEVANTES ==
    {"SOL", "LUNA", "MERCURIO", "VENUS", "MARTE", "JUPITER", "SATURNO",
     "URANO", "NEPTUNO", "PLUTON", "ASCENDENTE", "MEDIO_CIELO", "NODO_NORTE",
     "NODO_SUR", "LILITH", "QUIRON"}

\* obtener_signo_grado(longitud_ec)[0]
obtener_signo(longitud_ec) == SIGNOS[((longitud_ec \div 300) % 12) + 1]

\* an entry carta[nombre] of calcular_carta_natal computed from a longitude
CuerpoCarta(nombre, longitud) ==
    [nombre |-> nombre, signo |-> obtener_signo(longitud),
     casa |-> obtener_casa_desde_cuspides(longitud, Cuspides),
     longitud |-> longitud]

\* carta['QUIRON'] of calcular_carta_natal: pos is the answer of
\* swe.calc_ut(jd, swe.CHIRON), None when the call raises
QuironCarta(pos) ==
    IF pos # None THEN CuerpoCarta("QUIRON", Val(pos))
    ELSE [nombre |-> "QUIRON", signo |-> "N/A", casa |-> 0, longitud |-> 0]

\* calcular_carta_natal(...)["carta"], in insertion order, for a birth with
\* Saturn at 30.0 and the Part of Fortune at 100.0
calcular_carta_natal(pos_quiron) ==
    <<CuerpoCarta("SATURNO", 300), QuironCarta(pos_quiron),
      CuerpoCarta("PARTE_FORTUNA", 1000)>>

\* construir_posiciones_natales: the relevant bodies of a chart that have
\* a "longitud" (every entry of a chart has one)
RECURSIVE construir_posiciones_natales(_)
construir_posiciones_natales(carta) ==
    IF carta = <<>> THEN <<>>
    ELSE LET info == Head(carta)
             resto == construir_posiciones_natales(Tail(carta))
         IN IF info.nombre \in CUERPOS_NATALES_RELEVANTES
            THEN <<[nombre |-> info.nombre, longitud |-> info.longitud]>> \o resto
            ELSE resto

\* answers of swe.calc_ut(jd, swe.CHIRON) at birth: 358.0, or an error
RespuestasQuiron == {Some(3580), None}

\* a scan over the positions built from a chart
EntradaCarta(nombre, d, pos_quiron) ==
    LET carta == calcular_carta_natal(pos_quiron)
    IN [EntradaPlaneta(nombre, d, Some(construir_posiciones_natales(carta)), "P")
            EXCEPT !.carta = Some(carta), !.cielo = "aries"]

EntradasPlaneta ==
    {EntradaPlaneta("SATURNO", 2, Some(NatalSaturno), "P"),
     EntradaPlaneta("SATURNO", 1, Some(NatalSaturnoSol), "W"),
     EntradaPlaneta("SATURNO", -1, Some(NatalSaturno), "P"),
     EntradaPlaneta("SOL", 1, Some(NatalSaturno), "P"),
     EntradaPlaneta("LUNA", 1, None, "P")}
    \cup {EntradaCarta("SATURNO", 1, q) : q \in RespuestasQuiron}

\* raw detection lists of at most MaxFases detections
MaxFases == 3

Detecciones ==
    {[tipo |-> "fase_lunar", subtipo |-> SUBTIPOS[i], fecha |-> f] :
        i \in 1..Len(SUBTIPOS), f \in FechasFases}

EntradasFases ==
    UNION {[1..n -> Detecciones] : n \in 0..MaxFases}

\* the periods explored by calcular_eclipses, in days, and the eclipses
\* the sky may hold
DiasEclipses == {-1, 30, 200}

SolaresPosibles ==
    {-10 * CENTESIMAS_DIA, 20 * CENTESIMAS_DIA, 50 * CENTESIMAS_DIA,
     195 * CENTESIMAS_DIA}

LunaresPosibles ==
    {5 * CENTESIMAS_DIA + 1200, 30 * CENTESIMAS_DIA + 2399, 190 * CENTESIMAS_DIA}

EntradasEclipses ==
    {[dias |-> d, solares |-> s, lunares |-> l, proveedor |-> pr] :
        d \in DiasEclipses, s \in SUBSET SolaresPosibles, l \in SUBSET LunaresPosibles,
        pr \in {"primero", "cualquiera"}}

\* longitudes given to the angle functions, in tenths of a degree: below
\* 0, within a turn, and a turn or more
LongitudesDadas ==
    {-3700, -900, -1, 0, 600, 1200, 1800, 1801, 3599, 3600, 4500}

EntradasAngulos ==
    {[a |-> a, b |-> b, ang_obj |-> ASPECTOS[i].ang] :
        a \in LongitudesDadas, b \in LongitudesDadas, i \in 1..Len(ASPECTOS)}

\* sets of 12 cusps in ascending cyclic order: evenly spaced from a first
\* cusp, and unevenly spaced
Desigual == <<0, 200, 450, 900, 1300, 1600, 1800, 2000, 2250, 2700, 3100, 3400>>

CuspidesDadas ==
    {[i \in 1..12 |-> (c + 300 * (i - 1)) % 3600] : c \in {0, 30, 1500, 3300, 3599}}
        \cup {[i \in 1..12 |-> (c + Desigual[i]) % 3600] : c \in {0, 1000, 3500}}

\* longitudes in [0, 360): on a cusp, just before one, just after one
LongitudesEclipticas ==
    {0, 1, 29, 30, 31, 299, 300, 329, 330, 899, 900, 999, 1000, 1499, 1500,
     3299, 3300, 3499, 3500, 3598, 3599}

EntradasCasas ==
    {[long_ec |-> l, cuspides |-> c] : l \in LongitudesEclipticas, c \in CuspidesDadas}

SinLlamada ==
    /\ fecha = inicio_day
    /\ ventanas = <<>> /\ estado_prev = <<>> /\ out = <<>> /\ resultado = None
    /\ anterior = None /\ estados_aspectos = <<>> /\ eventos = <<>> /\ abiertas = <<>>
    /\ jd_busqueda = 0 /\ eclipses = <<>> /\ hallados = <<>>
    /\ vueltas = [bucle \in {"solar", "lunar"} |-> 0]
    /\ visitados = <<>>

InitCielo == \E e \in EntradasCielo : Comienzo("cielo", e)

InitNatal == \E e \in EntradasNatal : Comienzo("natal", e)

InitPlaneta ==
    /\ \E e \in EntradasPlaneta :
        scanner = "planeta" /\ entrada = e /\ pc = "bucle"
    /\ SinLlamada

----------------------------------------------------------------------------
(* Requests served concurrently by one process *)

\* EPHE_PATH = str(BASE_DIR / "ephe"), the same directory in main_api.py,
\* transitos.py and carta_natal.py
EPHE_PATH == "src/ephe"

\* a directory other than EPHE_PATH
OTRA_RUTA == "ephe"

\* the requests of one process
Hilos == {1, 2}

\* the most provider calls of one request
MaxLecturas == 2

\* A request: the function it runs, its first instant and the number of
\* provider calls it makes
Peticiones ==
    {[funcion |-> f, inicio |-> t, lecturas |-> n] :
        f \in {"calcular_carta_natal", "calcular_transitos_planeta",
                "calcular_transitos_cielo"},
        t \in {0}, n \in 1..MaxLecturas}

\* swe.calc_ut(jd, ...) as a function of what it depends on: the instant
\* and the directory of ephemeris files set at the time of the call
Efemeride(ruta, jd) == [ruta |-> ruta, jd |-> jd]

\* a function whose entry sets another directory
ruta_distinta_en_carta(funcion) ==
    IF funcion = "calcular_carta_natal" THEN Some(OTRA_RUTA)
    ELSE IF funcion = "calcular_transitos_planeta" THEN Some(EPHE_PATH)
    ELSE None

\* the argument of swe.set_ephe_path at the entry of a function: EPHE_PATH in
\* calcular_carta_natal and calcular_transitos_planeta; the functions of
\* transitos.py set no path
ruta_al_entrar(funcion) ==
    IF funcion \in {"calcular_carta_natal", "calcular_transitos_planeta"}
    THEN Some(EPHE_PATH)
    ELSE None

\* what its provider calls answer to a request that runs alone
Solo(peticion) ==
    [i \in 1..peticion.lecturas |-> Efemeride(EPHE_PATH, peticion.inicio + (i - 1))]

\* the number of provider calls made so far by all requests
Reloj(hs) == hs[1].i + hs[2].i

InitServidor ==
    /\ \E ps \in [Hilos -> Peticiones] :
        scanner = "servidor" /\ entrada = [peticiones |-> ps] /\ pc = "arranque"
    /\ ephe_path = ""
    /\ hilos = [h \in Hilos |-> [pc |-> "espera", i |-> 0, leidos |-> <<>>,
                                  reloj |-> 0]]
    /\ SinLlamada

\* the startup handler
inicializar_swisseph ==
    /\ scanner = "servidor" /\ pc = "arranque"
    /\ ephe_path' = EPHE_PATH
    /\ pc' = "sirviendo"
    /\ UNCHANGED <<visitados, scanner, entrada, llamada, fecha, ventanas, estado_prev, out,
                   resultado, primera, efem, varsPlaneta, varsEclipses, hilos>>

\* a request enters its function; reloj remembers how many provider calls
\* had been made by then
Entrar ==
    /\ scanner = "servidor" /\ pc = "sirviendo"
    /\ \E h \in Hilos :
        /\ hilos[h].pc = "espera"
        /\ LET ruta == ruta_al_entrar(entrada.peticiones[h].funcion)
           IN ephe_path' = IF ruta = None THEN ephe_path ELSE Val(ruta)
        /\ hilos' = [hilos EXCEPT ![h].pc = "bucle", ![h].reloj = Reloj(hilos)]
    /\ UNCHANGED <<visitados, scanner, entrada, llamada, pc, fecha, ventanas, estado_prev, out,
                   resultado, primera, efem, varsPlaneta, varsEclipses>>

\* one provider call of a request
Leer ==
    /\ scanner = "servidor" /\ pc = "sirviendo"
    /\ \E h \in Hilos :
        /\ hilos[h].pc = "bucle" /\ hilos[h].i < entrada.peticiones[h].lecturas
        /\ hilos' = [hilos EXCEPT
                ![h].leidos = Append(@, Efemeride(ephe_path,
                                        entrada.peticiones[h].inicio + hilos[h].i)),
                ![h].i = @ + 1]
    /\ UNCHANGED <<visitados, scanner, entrada, llamada, pc, fecha, ventanas, estado_prev, out,
                   resultado, primera, efem, varsPlaneta, varsEclipses, ephe_path>>

\* a request returns
Volver ==
    /\ scanner = "servidor" /\ pc = "sirviendo"
    /\ \E h \in Hilos :
        /\ hilos[h].pc = "bucle" /\ hilos[h].i = entrada.peticiones[h].lecturas
        /\ hilos' = [hilos EXCEPT ![h].pc = "fin"]
    /\ UNCHANGED <<visitados, scanner, entrada, llamada, pc, fecha, ventanas, estado_prev, out,
                   resultado, primera, efem, varsPlaneta, varsEclipses, ephe_path>>

----------------------------------------------------------------------------
(* calcular_fases_lunares: the detections of one pair of samples *)

\* objetivos, in tenths of a degree, in the order of the dict
objetivos == <<[nombre |-> "Luna Nueva", ang_obj |-> 0],
               [nombre |-> "Cuarto Creciente", ang_obj |-> 900],
               [nombre |-> "Luna Llena", ang_obj |-> 1800],
               [nombre |-> "Cuarto Menguante", ang_obj |-> 2700]>>

\* timedelta(minutes=30), in seconds
DELTA_FASES == 1800

\* "diff <= 1", in tenths of a degree
CERCANIA == 10

\* "cruza"
cruza(elong, elong_next, ang_obj) ==
    \/ Abs(elong - ang_obj) <= CERCANIA
    \/ Abs(elong_next - ang_obj) <= CERCANIA
    \/ (elong <= ang_obj /\ ang_obj <= elong_next)
    \/ (elong_next <= ang_obj /\ ang_obj <= elong)
    \/ (elong > elong_next /\ (elong <= ang_obj \/ ang_obj <= elong_next))

\* "frac", a quotient kept as numerator and positive denominator, after
\* "if frac < 0: frac += 1"; elong_next # elong
Fraccion(elong, elong_next, ang_obj) ==
    LET n0 == ang_obj - elong
        d0 == elong_next - elong
        num == IF d0 < 0 THEN -n0 ELSE n0
        den == Abs(d0)
    IN IF num < 0 THEN [num |-> num + den, den |-> den]
       ELSE [num |-> num, den |-> den]

\* the detection of one target by the samples at fecha and fecha + delta:
\* desplazamiento is fecha_exacta - fecha in whole seconds, as strftime
\* prints it
Deteccion(nombre, elong, elong_next, ang_obj) ==
    IF elong_next # elong
    THEN LET frac == Fraccion(elong, elong_next, ang_obj)
         IN [subtipo |-> nombre, ang_obj |-> ang_obj, frac |-> frac,
             desplazamiento |-> (frac.num * DELTA_FASES) \div frac.den]
    ELSE [subtipo |-> nombre, ang_obj |-> ang_obj, frac |-> [num |-> 0, den |-> 1],
          desplazamiento |-> 0]

\* the loop over objetivos for one pair of samples
RECURSIVE BucleObjetivos(_, _, _)
BucleObjetivos(objs, elong, elong_next) ==
    IF objs = <<>> THEN <<>>
    ELSE LET o == Head(objs)
             resto == BucleObjetivos(Tail(objs), elong, elong_next)
         IN IF cruza(elong, elong_next, o.ang_obj)
            THEN <<Deteccion(o.nombre, elong, elong_next, o.ang_obj)>> \o resto
            ELSE resto

\* elongations (lon_luna - lon_sol) % 360 of two consecutive samples
Elongaciones == {0, 3, 12, 880, 892, 895, 898, 902, 908, 1795, 1805, 2700, 3592, 3599}

EntradasDeteccion ==
    {[elong |-> e1, elong_next |-> e2] : e1 \in Elongaciones, e2 \in Elongaciones}

InitDeteccion ==
    /\ \E e \in EntradasDeteccion :
        scanner = "deteccion" /\ entrada = e /\ pc = "cruces"
    /\ SinLlamada

\* the detections appended to fases for one pair of samples, the Moon's
\* longitude at each interpolated instant being available
Detectar ==
    /\ scanner = "deteccion" /\ pc = "cruces"
    /\ resultado' = Some(BucleObjetivos(objetivos, entrada.elong, entrada.elong_next))
    /\ pc' = "fin"
    /\ UNCHANGED <<visitados, varsProceso, scanner, entrada, llamada, fecha, ventanas,
                   estado_prev, out, primera, efem, varsPlaneta, varsEclipses>>

InitFases ==
    /\ \E fs \in EntradasFases :
        scanner = "fases" /\ entrada = [fases |-> fs] /\ pc = "filtro"
    /\ SinLlamada

InitAngulos ==
    /\ \E e \in EntradasAngulos :
        scanner = "angulos" /\ entrada = e /\ pc = "medir"
    /\ SinLlamada

InitCasas ==
    /\ \E e \in EntradasCasas :
        scanner = "casas" /\ entrada = e /\ pc = "medir"
    /\ SinLlamada

\* calcular_eclipses about to enter its first loop
InitEclipses ==
    /\ \E e \in EntradasEclipses :
        scanner = "eclipses" /\ entrada = e /\ pc = "solar"
    /\ fecha = inicio_day
    /\ ventanas = <<>> /\ estado_prev = <<>> /\ out = <<>> /\ resultado = None
    /\ anterior = None /\ estados_aspectos = <<>> /\ eventos = <<>> /\ abiertas = <<>>
    /\ jd_busqueda = jd_inicio - MARGEN * CENTESIMAS_DIA /\ eclipses = <<>>
    /\ hallados = <<>> /\ visitados = <<>>
    /\ vueltas = [bucle \in {"solar", "lunar"} |-> 0]

\* a single call, the path set when its module was imported
UnaLlamada == ephe_path = EPHE_PATH /\ hilos = <<>>

Init ==
    /\ llamada = 1 /\ primera = None /\ efem = <<>>
    /\ \/ UnaLlamada /\ (InitCielo \/ InitNatal \/ InitPlaneta \/ InitFases
                            \/ InitEclipses \/ InitAngulos \/ InitCasas
                            \/ InitDeteccion)
       \/ InitServidor

Next ==
    \/ CieloMuestra
    \/ CieloCerrar
    \/ NatalMuestra
    \/ NatalCerrar
    \/ PlanetaMuestra
    \/ PlanetaCerrar
    \/ FasesFiltrar
    \/ Medir
    \/ Ubicar
    \/ EclipsesSolares
    \/ EclipsesLunares
    \/ Reinvocar
    \/ ReinvocarSinRefinar
    \/ ReinvocarSinLuna
    \/ inicializar_swisseph
    \/ Entrar
    \/ Leer
    \/ Volver
    \/ Detectar

Spec == Init /\ [][Next]_vars

----------------------------------------------------------------------------
(* Properties *)

EsAspecto(ev) == ev.tipo \in {"aspecto", "aspecto_transito", "retorno_planeta"}

\* the events emitted so far by a scan of transitos.py, whatever the body
Emitidos == UNION {Rango(out[p]) : p \in DOMAIN out}

\* the instants whose answers are remembered and that the loop samples
Muestreados ==
    IF scanner \in {"cielo", "natal"}
    THEN {t \in DOMAIN efem : inicio_day <= t /\ t <= last_end}
    ELSE DOMAIN efem

\* the events of the returned list of a scan of transitos.py
Devueltos ==
    IF resultado = None THEN {}
    ELSE UNION {Rango(Val(resultado)[i].eventos) : i \in 1..Len(Val(resultado))}

Ordenadas(ev) ==
    /\ FechaLeq(ev.fecha_inicio, ev.fecha_exacto)
    /\ FechaLeq(ev.fecha_exacto, ev.fecha_fin)

EstrictamenteOrdenadas(ev) ==
    /\ Ordenadas(ev)
    /\ ev.fecha_inicio # ev.fecha_exacto
    /\ ev.fecha_exacto # ev.fecha_fin

\* C1: in calcular_transitos_cielo and calcular_transitos_natal every aspect
\* event emitted, and every one returned, has
\* fecha_inicio <= fecha_exacto <= fecha_fin, whatever the sampled
\* longitudes (unavailable ones included) and whether the window was closed
\* by an out-of-orb sample or by the flush.
C1_FechasOrdenadas ==
    scanner \in {"cielo", "natal"} =>
        \A ev \in Emitidos \cup Devueltos : EsAspecto(ev) => Ordenadas(ev)

\* a scan that returned, after an unavailable sample of the Moon, an aspect
\* event whose best time lies strictly inside its window and one closed by
\* the flush
C1_Witness ==
    /\ scanner \in {"cielo", "natal"} /\ pc = "fin" /\ entrada.incluir_luna
    /\ \E t \in Muestreados : efem[t]["LUNA"].lon = None
    /\ \E ev \in Devueltos : EsAspecto(ev) /\ EstrictamenteOrdenadas(ev)
    /\ \E ev \in Devueltos : EsAspecto(ev) /\ ev.fecha_fin = fecha_str(last_end)

\* C2: in calcular_transitos_planeta every aspect / retorno_planeta event
\* emitted has fecha_inicio <= fecha_exacto <= fecha_fin, fecha_exacto being
\* the day of the instant encontrar_momento_aspecto returned over
\* [jd_prev, jd] at the sample that opened the window.
C2_PlanetaFechasOrdenadas ==
    scanner = "planeta" =>
        \A i \in 1..Len(eventos) :
            EsAspecto(eventos[i]) =>
                /\ eventos[i].fecha_inicio <= eventos[i].fecha_exacto
                /\ eventos[i].fecha_exacto <= eventos[i].fecha_fin

\* the key of the window an aspect event was emitted for
ClaveDe(ev) ==
    IF ev.tipo = "aspecto_transito" THEN <<ev.planeta1, ev.planeta2, ev.aspecto>>
    ELSE <<ev.planeta_transito, ev.planeta_natal, ev.aspecto>>

\* the aspect events of key clave in a list of events
EventosDe(evs, clave) ==
    {i \in 1..Len(evs) : EsAspecto(evs[i]) /\ ClaveDe(evs[i]) = clave}

Veces(evs, clave) == Cardinality(EventosDe(evs, clave))

\* the bodies whose lists hold the events of a key
CuerposDe(clave) == IF scanner = "cielo" THEN {clave[1], clave[2]} ELSE {clave[1]}

\* the returned events of body p
DevueltosDe(p) ==
    LET r == Val(resultado)
    IN r[CHOOSE i \in 1..Len(r) : r[i].planeta = p].eventos

Abierta(clave) ==
    \E i \in 1..Len(estados_aspectos) :
        estados_aspectos[i].clave = clave /\ estados_aspectos[i].activo

\* C3: in the three scanners every window opened has produced exactly one
\* aspect event when the scan returns, emitted by the first out-of-orb
\* sample or by the flush: none while it is open, one once it is closed,
\* one in the returned list, and no event without a window.
C3_UnEventoPorVentana ==
    /\ scanner \in {"cielo", "natal"} =>
        /\ \A i \in 1..Len(ventanas) : \A p \in CuerposDe(ventanas[i].clave) :
            /\ Veces(out[p], ventanas[i].clave) =
                  IF ventanas[i].activo /\ pc # "fin" THEN 0 ELSE 1
            /\ pc = "fin" => Veces(DevueltosDe(p), ventanas[i].clave) = 1
        /\ \A ev \in Emitidos \cup Devueltos :
              EsAspecto(ev) => \E i \in 1..Len(ventanas) : ventanas[i].clave = ClaveDe(ev)
    /\ scanner = "planeta" =>
        /\ \A clave \in Rango(abiertas) :
            /\ Veces(eventos, clave)
                  + (IF Abierta(clave) /\ pc # "fin" THEN 1 ELSE 0)
                  = Cardinality({i \in 1..Len(abiertas) : abiertas[i] = clave})
            /\ pc = "fin" =>
                  Veces(Val(resultado).eventos, clave)
                      = Cardinality({i \in 1..Len(abiertas) : abiertas[i] = clave})
        /\ \A i \in 1..Len(eventos) :
              EsAspecto(eventos[i]) => ClaveDe(eventos[i]) \in Rango(abiertas)

\* a scan that returned with a window closed by its last sample
C3_Witness ==
    /\ scanner \in {"cielo", "natal"} /\ pc = "fin"
    /\ \E i \in 1..Len(ventanas) :
        /\ ~ventanas[i].activo
        /\ \E ev \in Devueltos :
            /\ EsAspecto(ev) /\ ClaveDe(ev) = ventanas[i].clave
            /\ ev.fecha_fin = fecha_str(last_end)

\* the keys a scan of transitos.py examines
ClavesPosibles ==
    IF scanner = "cielo"
    THEN {<<planetas[i], planetas[j], ASPECTOS[a].nombre>> :
            <<i, j, a>> \in {x \in (1..Len(planetas)) \X (1..Len(planetas))
                                      \X (1..Len(ASPECTOS)) : x[1] < x[2]}}
    ELSE IF Truthy(entrada.posiciones_natales)
    THEN {<<planetas[i], Val(entrada.posiciones_natales)[n].nombre, ASPECTOS[a].nombre>> :
            <<i, n, a>> \in (1..Len(planetas))
                               \X (1..Len(Val(entrada.posiciones_natales)))
                               \X (1..Len(ASPECTOS))}
    ELSE {}

AnguloDe(nombre) == (CHOOSE a \in Rango(ASPECTOS) : a.nombre = nombre).ang

NatalDe(nombre) ==
    CHOOSE n \in Rango(Val(entrada.posiciones_natales)) : n.nombre = nombre

\* the samples taken so far at which the key was examined
MuestrasDe(clave) ==
    {t \in Muestreados :
        /\ t < fecha
        /\ efem[t][clave[1]].lon # None
        /\ scanner = "cielo" => efem[t][clave[2]].lon # None}

\* whether the key was within orb at sample t
EnOrbe(clave, t) ==
    IF scanner = "cielo"
    THEN distancia_aspecto(Val(efem[t][clave[1]].lon), Val(efem[t][clave[2]].lon),
                           AnguloDe(clave[3]))
            <= Min(OrbeBase(clave[1], ORBE_DEFECTO), OrbeBase(clave[2], ORBE_DEFECTO))
    ELSE distancia_aspecto(Val(efem[t][clave[1]].lon), NatalDe(clave[2]).longitud,
                           AnguloDe(clave[3]))
            <= Min(OrbeBase(clave[1], ORBE_DEFECTO),
                   OrbeBase(clave[2], OrbeBase(clave[1], ORBE_DEFECTO)))

\* the number of maximal runs of consecutive samples within orb
Corridas(clave) ==
    Cardinality({t \in MuestrasDe(clave) :
        /\ EnOrbe(clave, t)
        /\ \A u \in MuestrasDe(clave) :
              (u < t /\ \A v \in MuestrasDe(clave) : ~(u < v /\ v < t))
                  => ~EnOrbe(clave, u)})

\* C4: in calcular_transitos_cielo and calcular_transitos_natal a closed
\* window is deleted, so a later sample within orb opens a new one: the
\* number of aspect events a scan returns for a key is the number of
\* maximal runs of consecutive samples within orb for that key.
C4_EventosPorCorrida ==
    (scanner \in {"cielo", "natal"} /\ pc = "fin") =>
        \A clave \in ClavesPosibles :
            Veces(DevueltosDe(clave[1]), clave) = Corridas(clave)

\* C5: a window still open when the sampling loop ends, one opened on the
\* very last sample included, is force-closed: the scan returns exactly one
\* aspect event for it, whose fecha_fin is the timestamp of the last sample
\* taken and whose fecha_inicio and fecha_exacto are the ones tracked.
C5_CierreForzado ==
    (scanner \in {"cielo", "natal"} /\ pc = "fin") =>
        \A i \in 1..Len(ventanas) :
            ventanas[i].activo =>
                \A p \in CuerposDe(ventanas[i].clave) :
                    LET evs == DevueltosDe(p)
                        js == EventosDe(evs, ventanas[i].clave)
                    IN /\ Cardinality(js) = 1
                       /\ \A j \in js :
                            /\ evs[j].fecha_fin = fecha_str(fecha - delta)
                            /\ evs[j].fecha_exacto = ventanas[i].fecha_exacto
                            /\ evs[j].fecha_inicio = ventanas[i].fecha_inicio

\* a scan that returned with a window opened by its very last sample, the
\* Moon having been out of orb until then
C5_Witness ==
    /\ scanner \in {"cielo", "natal"} /\ pc = "fin" /\ fecha - delta = last_end
    /\ \E i \in 1..Len(ventanas) :
        /\ ventanas[i].activo /\ ventanas[i].clave[1] = "LUNA"
        /\ ventanas[i].fecha_inicio = fecha_str(fecha - delta)
        /\ \E ev \in Devueltos : EsAspecto(ev) /\ ClaveDe(ev) = ventanas[i].clave

\* a key of calcular_transitos_cielo out of orb, within orb and out of orb
\* at the consecutive samples t, t + 1, t + 2, and within orb at no other
\* sample of the scan
FueraDentroFuera(clave, t) ==
    /\ {t, t + 1, t + 2} \subseteq MuestrasDe(clave)
    /\ \A u \in MuestrasDe(clave) : EnOrbe(clave, u) <=> u = t + 1

\* C6 as stated: such a key gets exactly one aspect event, whose window
\* spans the first and the third sample.
C6_VentanaPrimeraTercera ==
    (scanner = "cielo" /\ pc = "fin") =>
        \A clave \in ClavesPosibles : \A t \in Muestreados :
            FueraDentroFuera(clave, t) =>
                LET evs == DevueltosDe(clave[1])
                IN /\ Veces(evs, clave) = 1
                   /\ \A j \in EventosDe(evs, clave) :
                        /\ evs[j].fecha_inicio = fecha_str(t)
                        /\ evs[j].fecha_fin = fecha_str(t + 2)

\* C6: a key out of orb, within orb and out of orb at three consecutive
\* samples gets exactly one aspect event, whose fecha_inicio and
\* fecha_exacto are the second sample's time (the first within orb) and
\* whose fecha_fin is the third's.
C6_VentanaSegundaTercera ==
    (scanner = "cielo" /\ pc = "fin") =>
        \A clave \in ClavesPosibles : \A t \in Muestreados :
            FueraDentroFuera(clave, t) =>
                \A p \in CuerposDe(clave) :
                    LET evs == DevueltosDe(p)
                    IN /\ Veces(evs, clave) = 1
                       /\ \A j \in EventosDe(evs, clave) :
                            /\ evs[j].fecha_inicio = fecha_str(t + 1)
                            /\ evs[j].fecha_exacto = fecha_str(t + 1)
                            /\ evs[j].fecha_fin = fecha_str(t + 2)

\* a scan of the sky that returned after the Moon was out of orb, within
\* orb and out of orb of its conjunction with the Sun
C6_Witness ==
    /\ scanner = "cielo" /\ pc = "fin" /\ entrada.incluir_luna
    /\ \E t \in Muestreados : FueraDentroFuera(<<"SOL", "LUNA", "conjuncion">>, t)

\* the samples taken so far at which body p had a longitude
Exitosas(p) == {t \in Muestreados : t < fecha /\ efem[t][p].lon # None}

\* t1 and t2 are consecutive successful samples of body p
Consecutivas(p, t1, t2) ==
    /\ t1 \in Exitosas(p) /\ t2 \in Exitosas(p) /\ t1 < t2
    /\ \A u \in Exitosas(p) : ~(t1 < u /\ u < t2)

Ingresos(p, t) ==
    {i \in 1..Len(out[p]) :
        out[p][i].tipo = "cambio_signo" /\ out[p][i].fecha = fecha_str(t)}

\* C7: in calcular_transitos_natal two consecutive successful samples of a
\* body whose sign indices differ give exactly one cambio_signo event, with
\* the earlier sample's sign as signo_anterior, the later one's as
\* signo_nuevo and the later sample's timestamp; equal sign indices give
\* none.
C7_CambioSigno ==
    scanner = "natal" =>
        \A p \in DOMAIN out : \A t1 \in Exitosas(p), t2 \in Exitosas(p) :
            Consecutivas(p, t1, t2) =>
                LET s1 == (Val(efem[t1][p].lon) \div 300) % 12
                    s2 == (Val(efem[t2][p].lon) \div 300) % 12
                IN IF s1 = s2 THEN Ingresos(p, t2) = {}
                   ELSE /\ Cardinality(Ingresos(p, t2)) = 1
                        /\ \A i \in Ingresos(p, t2) :
                             /\ out[p][i].signo_anterior = s1
                             /\ out[p][i].signo_nuevo = s2
                             /\ out[p][i].planeta = p

\* the Moon has changed sign between two consecutive samples and kept it
\* between two others
C7_Witness ==
    /\ scanner = "natal" /\ entrada.incluir_luna
    /\ \E t1 \in Exitosas("LUNA"), t2 \in Exitosas("LUNA") :
        /\ Consecutivas("LUNA", t1, t2)
        /\ Val(efem[t1]["LUNA"].lon) \div 300 # Val(efem[t2]["LUNA"].lon) \div 300
        /\ Ingresos("LUNA", t2) # {}
    /\ \E t1 \in Exitosas("LUNA"), t2 \in Exitosas("LUNA") :
        /\ Consecutivas("LUNA", t1, t2)
        /\ Val(efem[t1]["LUNA"].lon) \div 300 = Val(efem[t2]["LUNA"].lon) \div 300

\* the sign, house and station events in a list of events
Discretos(evs) ==
    {i \in 1..Len(evs) :
        evs[i].tipo \in {"cambio_signo", "cambio_casa", "retro_inicio", "retro_fin",
                         "retrogrado_inicio", "retrogrado_fin"}}

\* a step that takes a body of calcular_transitos_natal, or the body of
\* calcular_transitos_planeta, through a sample while it has no seeded
\* state leaves it without a sign, house or station event
SiembraSilenciosa ==
    /\ scanner = "natal" =>
        \A p \in DOMAIN estado_prev \cap DOMAIN out' :
            estado_prev[p].signo_idx = None => Discretos(out'[p]) = {}
    /\ (scanner = "planeta" /\ anterior = None) => Discretos(eventos') = {}

\* C8: the first successful sample of a body only seeds its sign, house
\* and station: no cambio_signo, cambio_casa, retro_inicio or retro_fin
\* event is emitted for it at that sample, in calcular_transitos_natal and
\* in calcular_transitos_planeta.
C8_PrimeraMuestraSilenciosa == [][SiembraSilenciosa]_vars

\* the Moon's first successful sample, retrograde and with cusps given,
\* has been taken, after an unsuccessful one
C8_Witness ==
    /\ scanner = "natal" /\ entrada.incluir_luna
    /\ Cardinality(Exitosas("LUNA")) = 1
    /\ \E t \in Muestreados : t < fecha /\ efem[t]["LUNA"].lon = None
    /\ estado_prev["LUNA"].signo_idx # None
    /\ estado_prev["LUNA"].casa # None
    /\ estado_prev["LUNA"].retro = Some(TRUE)

\* the first raw detection of each key
Primera(fases, i) == \A j \in 1..(i - 1) : ClaveFase(fases[j]) # ClaveFase(fases[i])

\* C9: the list calcular_fases_lunares returns holds at most one event per
\* (subtype, month), however many raw detections the month has, and the
\* event kept for a (subtype, month) is the first raw detection of that key
\* in scan order.
C9_UnaFasePorMes ==
    (scanner = "fases" /\ pc = "fin") =>
        LET r == Val(resultado)
            fases == entrada.fases
        IN /\ \A i \in 1..Len(r), j \in 1..Len(r) :
                ClaveFase(r[i]) = ClaveFase(r[j]) => i = j
           /\ \A i \in 1..Len(r) :
                \E k \in 1..Len(fases) : Primera(fases, k) /\ fases[k] = r[i]
           /\ \A k \in 1..Len(fases) :
                \E i \in 1..Len(r) : ClaveFase(r[i]) = ClaveFase(fases[k])

\* the filter has returned for raw detections with two of one key, the
\* later one dated before the first
C9_Witness ==
    /\ scanner = "fases" /\ pc = "fin"
    /\ \E i \in 1..Len(entrada.fases), j \in 1..Len(entrada.fases) :
        /\ i < j
        /\ ClaveFase(entrada.fases[i]) = ClaveFase(entrada.fases[j])
        /\ entrada.fases[j].fecha < entrada.fases[i].fecha
    /\ Len(Val(resultado)) < Len(entrada.fases)

\* C10: a second call of calcular_transitos_cielo or
\* calcular_transitos_natal with the same arguments and the same provider
\* answers returns the same ordered list as the first, and starts with no
\* window, no seeded sign, house or station and no event of the first.
C10_Determinista ==
    (scanner \in {"cielo", "natal"} /\ llamada = 2) =>
        /\ pc = "fin" => resultado = primera
        /\ (pc = "bucle" /\ fecha = inicio_day) =>
            /\ ventanas = <<>>
            /\ \A p \in DOMAIN estado_prev :
                /\ estado_prev[p].signo_idx = None
                /\ estado_prev[p].casa = None
                /\ estado_prev[p].retro = None
            /\ \A p \in DOMAIN out : out[p] = <<>>

\* a second call has returned a list that holds an aspect closed by a
\* sample, one closed by the flush and a sign change
C10_Witness ==
    /\ scanner \in {"cielo", "natal"} /\ llamada = 2 /\ pc = "fin"
    /\ \E i \in 1..Len(ventanas) : ~ventanas[i].activo
    /\ \E i \in 1..Len(ventanas) : ventanas[i].activo
    /\ \E ev \in Devueltos : ev.tipo \in {"cambio_signo", "aspecto_transito"}

\* the windows of body p, in insertion order
VentanasDe(vs, p) == SelectSeq(vs, LAMBDA v : v.clave[1] = p)

\* a sample of calcular_transitos_natal at which body p has no longitude
\* changes nothing of p; a body with a longitude at that sample is
\* processed, its sign being compared with the last one it was seen in
MuestraSaltada ==
    (scanner = "natal" /\ pc = "bucle" /\ fecha' # fecha) =>
        \A p \in DOMAIN out :
            IF efem'[fecha][p].lon = None
            THEN /\ estado_prev'[p] = estado_prev[p]
                 /\ out'[p] = out[p]
                 /\ VentanasDe(ventanas', p) = VentanasDe(ventanas, p)
            ELSE LET s == (Val(efem'[fecha][p].lon) \div 300) % 12
                     ant == estado_prev[p].signo_idx
                     nuevos == SubSeq(out'[p], Len(out[p]) + 1, Len(out'[p]))
                     ingresos == SelectSeq(nuevos, LAMBDA ev : ev.tipo = "cambio_signo")
                 IN /\ estado_prev'[p].signo_idx = Some(s)
                    /\ SubSeq(out'[p], 1, Len(out[p])) = out[p]
                    /\ IF ant # None /\ Val(ant) # s
                       THEN /\ Len(ingresos) = 1
                            /\ ingresos[1].signo_anterior = Val(ant)
                            /\ ingresos[1].signo_nuevo = s
                            /\ ingresos[1].fecha = fecha_str(fecha)
                       ELSE ingresos = <<>>

\* C11: in calcular_transitos_natal a sample at which a body's longitude
\* is unavailable is skipped for that body only: its sign, house and
\* station state and its windows are unchanged and no event is emitted for
\* it, the other bodies are processed at that sample, and the body's next
\* successful sample is compared with its last known state.
C11_MuestraSaltada == [][MuestraSaltada]_vars

\* the Moon had no longitude at a sample where the Sun had one, between
\* two samples in different signs, and its ingress was emitted at the later
\* one with the earlier one's sign
C11_Witness ==
    /\ scanner = "natal" /\ entrada.incluir_luna
    /\ \E t1 \in Exitosas("LUNA"), t2 \in Exitosas("LUNA") :
        /\ Consecutivas("LUNA", t1, t2) /\ t2 = t1 + 2
        /\ efem[t1 + 1]["LUNA"].lon = None /\ efem[t1 + 1]["SOL"].lon # None
        /\ \E i \in Ingresos("LUNA", t2) :
             /\ out["LUNA"][i].signo_anterior = (Val(efem[t1]["LUNA"].lon) \div 300) % 12
             /\ out["LUNA"][i].signo_nuevo = (Val(efem[t2]["LUNA"].lon) \div 300) % 12
        /\ estado_prev["SOL"].signo_idx # None

\* C12: calcular_transitos_planeta does not return normally with the
\* partial effects of a cursor position whose processing failed: the
\* returned list holds no sign, house or station event dated after the
\* last position whose previous-state update (signo_anterior,
\* casa_anterior, retrogrado_anterior, jd_prev) was applied.
C12_SinEfectosParciales ==
    (scanner = "planeta" /\ pc = "fin") =>
        \A ev \in Rango(Val(resultado).eventos) :
            "fecha" \in DOMAIN ev =>
                /\ anterior # None
                /\ ev.fecha <= fecha_dia(Val(anterior).fecha_prev)

\* the call of calcular_transitos_natal has no usable set of cusps
SinCuspides ==
    entrada.cuspides = None \/ Len(Val(entrada.cuspides)) # 12

\* C13: in calcular_transitos_natal, when no set of cusps is supplied
\* (None, or not exactly 12 entries) every body's house state stays None
\* during the whole scan and no cambio_casa event is emitted or returned.
C13_SinCuspidesSinCasas ==
    (scanner = "natal" /\ SinCuspides) =>
        /\ \A p \in DOMAIN estado_prev : estado_prev[p].casa = None
        /\ \A ev \in Emitidos \cup Devueltos : ev.tipo # "cambio_casa"

\* a scan given 11 cusps has returned after the Moon changed sign
C13_Witness ==
    /\ scanner = "natal" /\ pc = "fin"
    /\ entrada.cuspides # None /\ Len(Val(entrada.cuspides)) = 11
    /\ \E ev \in Devueltos : ev.tipo = "cambio_signo" /\ ev.planeta = "LUNA"
    /\ estado_prev["LUNA"].signo_idx # None /\ estado_prev["LUNA"].casa = None

\* the time an event of transitos.py is ordered by: the exact time of an
\* aspect, the time of a sign, house or station event
Instante(ev) ==
    IF EsAspecto(ev) THEN ev.fecha_exacto.dia * HorasPorDia + ev.fecha_exacto.hora
    ELSE ev.fecha.dia * HorasPorDia + ev.fecha.hora

EnOrdenTemporal(evs) ==
    \A i \in 1..Len(evs), j \in 1..Len(evs) :
        i < j => Instante(evs[i]) <= Instante(evs[j])

\* C14: every per-body event list returned by calcular_transitos_cielo
\* and calcular_transitos_natal is ordered by timestamp, the timestamp
\* being fecha_exacto for an aspect and fecha for a sign, house or
\* station event.
C14_ListasOrdenadas ==
    (scanner \in {"cielo", "natal"} /\ pc = "fin") =>
        \A i \in 1..Len(Val(resultado)) : EnOrdenTemporal(Val(resultado)[i].eventos)

\* a scan of calcular_transitos_natal has returned the Moon's events, an
\* aspect and a sign ingress among them, which were not emitted in order
C14_Witness ==
    /\ scanner = "natal" /\ pc = "fin" /\ entrada.incluir_luna
    /\ ~EnOrdenTemporal(out["LUNA"])
    /\ \E ev \in Rango(out["LUNA"]) : ev.tipo = "aspecto"
    /\ \E ev \in Rango(out["LUNA"]) : ev.tipo = "cambio_signo"
    /\ \E i \in 1..Len(Val(resultado)) :
         /\ Val(resultado)[i].planeta = "LUNA"
         /\ Len(Val(resultado)[i].eventos) = Len(out["LUNA"])

\* C15: the list of eclipses returned by calcular_eclipses, solar and lunar
\* together, and the list of lunar phases returned by
\* calcular_fases_lunares, which calcular_transitos_completo passes on as
\* they are, are each ordered by date.
C15_EclipsesYFasesOrdenados ==
    (scanner \in {"eclipses", "fases"} /\ pc = "fin") =>
        \A i \in 1..Len(Val(resultado)), j \in 1..Len(Val(resultado)) :
            i < j => Val(resultado)[i].fecha <= Val(resultado)[j].fecha

\* C16: _ang_diff is symmetric and lies in [0, 180] for all arguments,
\* negative ones and those of 360 or more included, and _norm360 returns
\* a value in [0, 360) that differs from its argument by whole turns.
C16_AngDiffSimetrica ==
    (scanner = "angulos" /\ pc = "fin") =>
        LET r == Val(resultado)
        IN /\ r.diff_ab = r.diff_ba
           /\ 0 <= r.diff_ab /\ r.diff_ab <= 1800
           /\ 0 <= r.norm_a /\ r.norm_a < 3600
           /\ 0 <= r.norm_b /\ r.norm_b < 3600
           /\ \E k \in -2..2 : r.norm_a = entrada.a + 3600 * k
           /\ \E k \in -2..2 : r.norm_b = entrada.b + 3600 * k

\* the functions were applied to a negative longitude and one beyond a
\* turn, more than half a turn apart once normalised
C16_Witness ==
    /\ scanner = "angulos" /\ pc = "fin"
    /\ entrada.a < 0 /\ entrada.b >= 3600
    /\ Val(resultado).norm_a - Val(resultado).norm_b > 1800
    /\ Val(resultado).diff_ab > 0

\* the shortest separation of two longitudes around the circle
Separacion(a, b) ==
    LET d == (a - b) % 3600
    IN IF d <= 3600 - d THEN d ELSE 3600 - d

\* C17: distancia_aspecto(lon1, lon2, ang) is |_ang_diff(lon1, lon2) - ang|,
\* lies in [0, 180] for every angle of the catalogue, and is 0 exactly
\* when the shortest separation of the two longitudes is the angle.
C17_DistanciaAspecto ==
    (scanner = "angulos" /\ pc = "fin") =>
        LET r == Val(resultado)
            resta == r.diff_ab - entrada.ang_obj
        IN /\ r.dist = (IF resta < 0 THEN -resta ELSE resta)
           /\ 0 <= r.dist /\ r.dist <= 1800
           /\ (r.dist = 0) <=> (Separacion(entrada.a, entrada.b) = entrada.ang_obj)

\* an exact trine between a longitude of a whole turn and one within the
\* turn, the first being behind the second once normalised
C17_Witness ==
    /\ scanner = "angulos" /\ pc = "fin"
    /\ entrada.ang_obj = 1200 /\ entrada.a >= 3600
    /\ Val(resultado).dist = 0
    /\ Val(resultado).norm_a - Val(resultado).norm_b # 1200

\* the smaller of the base orbs of the two participants of a key, the
\* moving body's when the natal point has none
OrbeEsperado(clave) ==
    LET b1 == ORBES_BASE[clave[1]]
        b2 == IF clave[2] \in DOMAIN ORBES_BASE THEN ORBES_BASE[clave[2]] ELSE b1
    IN IF b1 <= b2 THEN b1 ELSE b2

\* the distance of key clave from its aspect at sample t
DistanciaDe(clave, t) ==
    distancia_aspecto(Val(efem[t][clave[1]].lon),
                      IF scanner = "cielo" THEN Val(efem[t][clave[2]].lon)
                      ELSE NatalDe(clave[2]).longitud,
                      AnguloDe(clave[3]))

Minimo(S) == CHOOSE x \in S : \A y \in S : x <= y

\* C18: the orb of a key is the smaller of the base orbs of its two
\* participants (the moving body's alone when the natal point has no base
\* orb), the same at every sample: the key's window opens at the first
\* sample whose distance is within that orb, not before, and closes at
\* the first later sample whose distance exceeds it, not before.
C18_OrbeMinimo ==
    scanner \in {"cielo", "natal"} =>
        \A clave \in ClavesPosibles :
            LET dentro == {t \in MuestrasDe(clave) :
                              DistanciaDe(clave, t) <= OrbeEsperado(clave)}
                i == IndiceVentana(ventanas, clave)
            IN IF dentro = {} THEN i = 0
               ELSE LET t0 == Minimo(dentro)
                        fuera == {t \in MuestrasDe(clave) :
                                     /\ t > t0
                                     /\ DistanciaDe(clave, t) > OrbeEsperado(clave)}
                        evs == out[clave[1]]
                    IN /\ i # 0
                       /\ ventanas[i].fecha_inicio = fecha_str(t0)
                       /\ ventanas[i].activo <=> fuera = {}
                       /\ fuera # {} =>
                            \E j \in EventosDe(evs, clave) :
                                evs[j].fecha_fin = fecha_str(Minimo(fuera))

\* the Moon has opened a window on a natal point without base orb at a
\* distance between 2.0 and its own orb, after a sample farther from the
\* natal Sun than the Sun's orb, within its own, that opened none
C18_Witness ==
    /\ scanner = "natal" /\ entrada.incluir_luna
    /\ \E i \in 1..Len(ventanas) :
        /\ ventanas[i].clave = <<"LUNA", "ASC", "conjuncion">>
        /\ ventanas[i].dist_min > ORBE_DEFECTO
    /\ \E t \in MuestrasDe(<<"LUNA", "SOL", "conjuncion">>) :
        /\ \A i \in 1..Len(ventanas) :
              ventanas[i].clave = <<"LUNA", "SOL", "conjuncion">>
                  => t < strptime(ventanas[i].fecha_inicio)
        /\ DistanciaDe(<<"LUNA", "SOL", "conjuncion">>, t) > ORBES_BASE["SOL"]
        /\ DistanciaDe(<<"LUNA", "SOL", "conjuncion">>, t) <= ORBES_BASE["LUNA"]

\* the samples of the window of key clave opened at t0: those from t0 up
\* to, not including, the first one out of orb
MuestrasVentana(clave, t0) ==
    {t \in MuestrasDe(clave) :
        /\ t >= t0
        /\ \A u \in MuestrasDe(clave) :
              (t0 <= u /\ u <= t) => DistanciaDe(clave, u) <= OrbeEsperado(clave)}

\* the earliest sample of the window that attains its smallest distance
MasCercana(clave, t0) ==
    LET W == MuestrasVentana(clave, t0)
    IN Minimo({t \in W : \A u \in W : DistanciaDe(clave, t) <= DistanciaDe(clave, u)})

\* C19: the fecha_exacto of a window, and of the aspect event emitted for
\* it, is the timestamp of the earliest sample of the window that attains
\* the smallest distance among its samples within orb; a later sample at
\* the same distance does not move it and the closing sample, out of orb,
\* never becomes it: dist_min is that smallest distance, at most the orb.
C19_FechaExacto ==
    scanner \in {"cielo", "natal"} =>
        \A i \in 1..Len(ventanas) :
            LET clave == ventanas[i].clave
                t0 == strptime(ventanas[i].fecha_inicio)
                tm == MasCercana(clave, t0)
            IN /\ ventanas[i].fecha_exacto = fecha_str(tm)
               /\ ventanas[i].dist_min = DistanciaDe(clave, tm)
               /\ ventanas[i].dist_min <= OrbeEsperado(clave)
               /\ \A p \in CuerposDe(clave) : \A j \in EventosDe(out[p], clave) :
                    out[p][j].fecha_exacto = fecha_str(tm)

\* a window of the Moon closed by a sample out of orb after two samples
\* at the same smallest distance, the first of which is not the opening
\* one
C19_Witness ==
    /\ scanner = "natal" /\ entrada.incluir_luna
    /\ \E i \in 1..Len(ventanas) :
        LET clave == ventanas[i].clave
            t0 == strptime(ventanas[i].fecha_inicio)
            tm == strptime(ventanas[i].fecha_exacto)
        IN /\ clave[1] = "LUNA" /\ ~ventanas[i].activo
           /\ tm > t0
           /\ \E u \in MuestrasVentana(clave, t0) :
                u > tm /\ DistanciaDe(clave, u) = ventanas[i].dist_min
           /\ EventosDe(out["LUNA"], clave) # {}

\* the station events in a list of events, in order
Estaciones(evs) ==
    SelectSeq(evs, LAMBDA ev : ev.tipo \in {"retro_inicio", "retro_fin"})

\* a sample of calcular_transitos_natal emits a station event for a body
\* exactly when its speed is available and its sign differs from the flag
\* last known; the station events of a body alternate
PasoEstacion ==
    (scanner = "natal" /\ pc = "bucle" /\ fecha' # fecha) =>
        \A p \in DOMAIN out :
            LET resp == efem'[fecha][p]
                prev == estado_prev[p].retro
                nuevas == Estaciones(SubSeq(out'[p], Len(out[p]) + 1, Len(out'[p])))
                todas == Estaciones(out'[p])
            IN /\ IF resp.lon = None \/ resp.vel = None
                  THEN nuevas = <<>> /\ estado_prev'[p].retro = prev
                  ELSE /\ estado_prev'[p].retro = Some(Val(resp.vel) < 0)
                       /\ IF prev # None /\ Val(prev) # (Val(resp.vel) < 0)
                          THEN /\ Len(nuevas) = 1
                               /\ nuevas[1].tipo = (IF Val(resp.vel) < 0
                                                    THEN "retro_inicio" ELSE "retro_fin")
                               /\ nuevas[1].planeta = p
                               /\ nuevas[1].fecha = fecha_str(fecha)
                          ELSE nuevas = <<>>
               /\ \A i \in 1..(Len(todas) - 1) : todas[i].tipo # todas[i + 1].tipo

\* C20: in calcular_transitos_natal a station event is emitted exactly
\* when the body's speed is available and (speed < 0) differs from the
\* last known flag: retro_inicio when it turns negative, retro_fin when
\* it turns non-negative, zero counting as non-negative; an unavailable
\* speed emits nothing and leaves the flag as it was, so the retro_inicio
\* and retro_fin events of a body strictly alternate.
C20_Estaciones == [][PasoEstacion]_vars

\* the Moon turned retrograde, then had no speed at a sample, then came to
\* rest: retro_inicio, nothing, retro_fin
C20_Witness ==
    /\ scanner = "natal" /\ entrada.incluir_luna
    /\ \E t \in Muestreados :
        /\ t + 2 < fecha
        /\ efem[t]["LUNA"].vel = Some(-1)
        /\ efem[t + 1]["LUNA"].lon # None /\ efem[t + 1]["LUNA"].vel = None
        /\ efem[t + 2]["LUNA"].vel = Some(0)
        /\ Len(Estaciones(out["LUNA"])) = 2
        /\ Estaciones(out["LUNA"])[1].tipo = "retro_inicio"
        /\ Estaciones(out["LUNA"])[1].fecha = fecha_str(t)
        /\ Estaciones(out["LUNA"])[2].tipo = "retro_fin"
        /\ Estaciones(out["LUNA"])[2].fecha = fecha_str(t + 2)

\* longitude l lies on the arc from cusp a up to, not including, cusp b
EnArco(l, a, b) ==
    IF a <= b THEN a <= l /\ l < b ELSE l >= a \/ l < b

\* C21: for 12 cusps in ascending cyclic order and a longitude, both in
\* [0, 360), obtener_casa_desde_cuspides returns the one house h in 1..12
\* whose arc from cusp h up to, not including, the next cusp holds the
\* longitude, the arc across 0 degrees included; a longitude on a cusp
\* belongs to the house that starts there.
C21_CasaUnica ==
    (scanner = "casas" /\ pc = "fin") =>
        LET h == Val(resultado)
            c == entrada.cuspides
        IN /\ h \in 1..12
           /\ EnArco(entrada.long_ec, c[h], c[(h % 12) + 1])
           /\ \A i \in 1..12 :
                 EnArco(entrada.long_ec, c[i], c[(i % 12) + 1]) => i = h
           /\ \A i \in 1..12 : entrada.long_ec = c[i] => h = i

\* a longitude beyond 0 degrees was found in the house whose arc crosses
\* 0 degrees, which is not the twelfth
C21_Witness ==
    /\ scanner = "casas" /\ pc = "fin"
    /\ Val(resultado) # 12
    /\ entrada.cuspides[Val(resultado)] > entrada.cuspides[(Val(resultado) % 12) + 1]
    /\ entrada.long_ec < entrada.cuspides[(Val(resultado) % 12) + 1]

\* C22: a scan whose end date precedes its start date is rejected before
\* any sample is taken: calcular_transitos_cielo, calcular_transitos_natal,
\* calcular_eclipses and calcular_transitos_planeta return no result,
\* empty or not, for such an interval.
C22_IntervaloInvertidoRechazado ==
    (scanner \in {"cielo", "natal", "planeta", "eclipses"} /\ entrada.dias < 0) =>
        resultado = None

\* C23: every eclipse reported by calcular_eclipses has its instant within
\* [jd_inicio, jd_final], and within the solar list and within the lunar
\* list no instant is reported twice, whatever instant at or after the
\* cursor the provider returns.
C23_EclipsesEnPeriodo ==
    scanner = "eclipses" =>
        /\ Len(hallados) = Len(eclipses)
        /\ \A i \in 1..Len(hallados) :
            /\ jd_inicio <= hallados[i].jd /\ hallados[i].jd <= jd_final
            /\ eclipses[i].subtipo = hallados[i].subtipo
            /\ eclipses[i].fecha = hallados[i].jd \div CENTESIMAS_DIA
        /\ \A i \in 1..Len(hallados), j \in 1..Len(hallados) :
            (i < j /\ hallados[i].subtipo = hallados[j].subtipo)
                => hallados[i].jd < hallados[j].jd

\* a provider that skipped an eclipse of the period, after one before
\* the period, has had two solar eclipses reported and the list returned
C23_Witness ==
    /\ scanner = "eclipses" /\ pc = "fin" /\ entrada.proveedor = "cualquiera"
    /\ \E e \in entrada.solares : e < jd_inicio
    /\ \E e \in entrada.lunares :
         /\ jd_inicio <= e /\ e <= jd_final
         /\ \A i \in 1..Len(hallados) : hallados[i].jd # e
    /\ Cardinality({i \in 1..Len(hallados) : hallados[i].subtipo = "solar"}) = 2

\* what an event of calcular_transitos_planeta reports apart from refined
\* timestamps: its kind, bodies, signs, aspect, and the samples that
\* opened and closed its window
Transicion(ev) ==
    IF EsAspecto(ev)
    THEN <<ev.tipo, ev.planeta_transito, ev.planeta_natal, ev.aspecto,
           ev.fecha_inicio, ev.fecha_fin>>
    ELSE IF ev.tipo = "cambio_signo"
    THEN <<ev.tipo, ev.planeta, ev.signo_anterior, ev.signo_nuevo>>
    ELSE IF ev.tipo = "cambio_casa"
    THEN <<ev.tipo, ev.planeta, ev.casa_anterior, ev.casa_nueva, ev.fecha>>
    ELSE <<ev.tipo, ev.planeta, ev.fecha>>

\* how many events of a list report transition x
VecesTransicion(evs, x) == Cardinality({i \in 1..Len(evs) : Transicion(evs[i]) = x})

\* C24: in calcular_transitos_planeta refinement only changes timestamps:
\* the scan reports the same transitions and windows, each as many times,
\* as the scan whose refiners return the sample instant unchanged.
C24_RefinarSoloFechas ==
    (scanner = "planeta" /\ llamada = 2 /\ pc = "fin") =>
        LET con == Val(primera).eventos
            sin == Val(resultado).eventos
        IN /\ Len(con) = Len(sin)
           /\ \A i \in 1..Len(sin) :
                VecesTransicion(con, Transicion(sin[i]))
                    = VecesTransicion(sin, Transicion(sin[i]))

\* C25: the loop of calcular_transitos_planeta runs one unit past the end
\* date: for each cadence (1 hour, 12 hours, 1 day) cursor positions are
\* visited throughout the final day, so the loop leaves its cursor past
\* the last hour of that day.
C25_UltimoDiaCubierto ==
    (scanner = "planeta" /\ pc = "fin" /\ entrada.dias >= 0) =>
        fecha >= f_final + HORAS_DIA

\* the chart entry of a body
EnCarta(carta, nombre) == CHOOSE c \in Rango(carta) : c.nombre = nombre

\* C27: when QUIRON could not be computed for the chart, its entry is not
\* used as a position: a scan of calcular_transitos_planeta over the
\* positions of construir_posiciones_natales returns no aspect event
\* whose planeta_natal is QUIRON.
C27_QuironNoDisponible ==
    (/\ scanner = "planeta" /\ pc = "fin" /\ entrada.carta # None
     /\ EnCarta(Val(entrada.carta), "QUIRON").signo = "N/A") =>
        \A ev \in Rango(Val(resultado).eventos) :
            EsAspecto(ev) => ev.planeta_natal # "QUIRON"

\* the transiting Moon takes part in an event of transitos.py
InvolucraLuna(ev) ==
    IF ev.tipo = "aspecto_transito" THEN ev.planeta1 = "LUNA" \/ ev.planeta2 = "LUNA"
    ELSE IF ev.tipo = "aspecto" THEN ev.planeta_transito = "LUNA"
    ELSE ev.planeta = "LUNA"

SinLuna(evs) == SelectSeq(evs, LAMBDA ev : ~InvolucraLuna(ev))

\* the record of body p in a returned list
RegistroDe(res, p) == res[CHOOSE i \in 1..Len(res) : res[i].planeta = p]

\* with incluir_luna = False the events of every other body are those of
\* the call with incluir_luna = True that do not involve the Moon
MismosEventosSinLuna ==
    (scanner \in {"cielo", "natal"} /\ llamada = 3 /\ pc = "fin") =>
        \A i \in 1..Len(Val(resultado)) :
            Val(resultado)[i].eventos
                = SinLuna(RegistroDe(Val(primera), Val(resultado)[i].planeta).eventos)

\* C26: with incluir_luna = False, calcular_transitos_cielo and
\* calcular_transitos_natal return no record for LUNA and no event with the
\* Moon as moving body or pair member, and the record of every other body
\* is the one computed with incluir_luna = True, its events restricted to
\* those that do not involve the transiting Moon.
C26_SinLuna ==
    (scanner \in {"cielo", "natal"} /\ llamada = 3 /\ pc = "fin") =>
        /\ \A i \in 1..Len(Val(resultado)) : Val(resultado)[i].planeta # "LUNA"
        /\ \A ev \in Devueltos : ~InvolucraLuna(ev)
        /\ \A i \in 1..Len(Val(resultado)) :
            Val(resultado)[i]
                = [RegistroDe(Val(primera), Val(resultado)[i].planeta)
                        EXCEPT !.eventos = SinLuna(@)]

\* C28: requests served concurrently read, at every provider call, the
\* ephemeris path set at startup, whatever calcular_carta_natal and
\* calcular_transitos_planeta re-set meanwhile, and each returns what it
\* returns when it runs alone.
C28_ScansIndependientes ==
    (scanner = "servidor" /\ pc = "sirviendo") =>
        /\ ephe_path = EPHE_PATH
        /\ \A h \in Hilos :
            /\ \A k \in 1..Len(hilos[h].leidos) : hilos[h].leidos[k].ruta = EPHE_PATH
            /\ hilos[h].pc = "fin" => hilos[h].leidos = Solo(entrada.peticiones[h])

\* both requests have returned, and calcular_carta_natal set the path
\* between two provider calls of a scan
C28_Witness ==
    /\ scanner = "servidor"
    /\ \A h \in Hilos : hilos[h].pc = "fin"
    /\ \E h \in Hilos, g \in Hilos :
        /\ entrada.peticiones[h].funcion = "calcular_carta_natal"
        /\ entrada.peticiones[g].funcion = "calcular_transitos_cielo"
        /\ hilos[h].reloj = 1
        /\ hilos[g].reloj = 0
        /\ entrada.peticiones[g].lecturas = 2

\* C29: in calcular_transitos_planeta successive cursor positions are
\* evaluated at strictly increasing Julian days, at the 1-hour and 12-hour
\* cadences as at the daily one: at every sample after the first, jd_prev
\* is earlier than the sample's jd.
C29_JdCreciente ==
    (scanner = "planeta" /\ pc = "bucle" /\ fecha <= f_final /\ anterior # None) =>
        Val(anterior).jd_prev < julday12(fecha)

\* the number of samples of an interval whose end day is dias days after
\* its start day, a day having HorasPorDia hourly instants
MuestrasEsperadas == IF entrada.dias >= 0 THEN HorasPorDia * (entrada.dias + 1) ELSE 0

\* C30: the sampling loops of calcular_transitos_cielo and
\* calcular_transitos_natal visit the hourly instants from 00:00 of the
\* start day on, each once and in increasing order, never more than those
\* up to the last hour of the end day; they end having visited all of them
\* (a day's worth times D + 1 for an end day D >= 0 days after the start),
\* the last one being the instant of the force-close timestamp.
C30_MuestrasHorarias ==
    scanner \in {"cielo", "natal"} =>
        /\ visitados = [k \in 1..Len(visitados) |-> inicio_day + (k - 1) * delta]
        /\ Len(visitados) <= MuestrasEsperadas
        /\ pc = "bucle" => fecha = inicio_day + Len(visitados) * delta
        /\ pc = "fin" =>
            /\ Len(visitados) = MuestrasEsperadas
            /\ entrada.dias >= 0 => fecha_str(visitados[Len(visitados)]) = last_fin

\* a scan over two days has returned an event force-closed at the
\* timestamp of its last sample
C30_Witness ==
    /\ scanner \in {"cielo", "natal"} /\ pc = "fin" /\ entrada.dias = 1
    /\ Len(visitados) = 2 * HorasPorDia
    /\ \E ev \in Devueltos :
        EsAspecto(ev) /\ ev.fecha_fin = fecha_str(visitados[Len(visitados)])

\* the noons of two days whose answers, and those of the days between
\* them, are remembered
ParesDeMediodias ==
    {par \in (DOMAIN efem) \X (DOMAIN efem) :
        par[1] < par[2] /\ \A k \in par[1]..par[2] : k \in DOMAIN efem}

\* int(lon // 30) at an instant where the provider answers
SignoEn(ef, jd) == Val(calc_ut(ef, jd)) \div 300

\* C31: encontrar_ingreso_signo(jd1, jd2, planet), when no provider call
\* raises, returns an instant of [jd1, jd2]; after its 22 halvings the
\* instant one final bracket width ((jd2 - jd1) / 2^22) before it has the
\* sign of jd1, and whenever the signs at jd1 and jd2 differ the sign at
\* the returned instant differs from the sign at jd1.
C31_IngresoAcotado ==
    scanner = "planeta" =>
        \A par \in ParesDeMediodias :
            LET jd1 == par[1] * TICKS + TICKS \div 2
                jd2 == par[2] * TICKS + TICKS \div 2
                r == encontrar_ingreso_signo(efem, ITERACIONES, jd1, jd2)
                ancho == (jd2 - jd1) \div (2 ^ ITERACIONES)
            IN r # None =>
                /\ jd1 <= Val(r) /\ Val(r) <= jd2
                /\ (jd2 - jd1) % (2 ^ ITERACIONES) = 0
                /\ Val(r) - ancho >= jd1
                /\ SignoEn(efem, Val(r) - ancho) = SignoEn(efem, jd1)
                /\ (calc_ut(efem, jd2) # None /\ SignoEn(efem, jd2) # SignoEn(efem, jd1))
                      => SignoEn(efem, Val(r)) # SignoEn(efem, jd1)

\* the scan has reported a sign change, refined to an instant strictly
\* inside the two samples, over an interval of two days
C31_Witness ==
    /\ scanner = "planeta" /\ llamada = 1
    /\ \E i \in 1..Len(eventos) : eventos[i].tipo = "cambio_signo"
    /\ <<0, 2>> \in ParesDeMediodias
    /\ LET jd1 == TICKS \div 2
           jd2 == 2 * TICKS + TICKS \div 2
           r == encontrar_ingreso_signo(efem, ITERACIONES, jd1, jd2)
       IN r # None /\ jd1 < Val(r) /\ Val(r) < jd2
            /\ SignoEn(efem, Val(r)) # SignoEn(efem, jd1)

\* the instants that tell the longitudes of [jd1, jd2] apart, the ends of
\* the interval being noons: every noon, and one instant after each but
\* the last
InstantesDe(jd1, jd2) ==
    {k * TICKS + TICKS \div 2 : k \in (jd1 \div TICKS)..(jd2 \div TICKS)}
        \cup {k * TICKS + TICKS \div 2 + 1 : k \in (jd1 \div TICKS)..((jd2 \div TICKS) - 1)}

\* the aspect distance at an instant where the provider answers
DistanciaEn(ef, jd, natal_long, angulo) ==
    distancia_aspecto_api((Val(calc_ut(ef, jd)) - natal_long) % 3600, angulo)

\* over [jd1, jd2] the distance falls to one minimum and rises from it
UnSoloMinimo(ef, jd1, jd2, natal_long, angulo) ==
    LET P == InstantesDe(jd1, jd2)
    IN \E m \in P :
        /\ \A t \in P, u \in P :
            (t < u /\ u <= m) =>
                DistanciaEn(ef, t, natal_long, angulo) > DistanciaEn(ef, u, natal_long, angulo)
        /\ \A t \in P, u \in P :
            (m <= t /\ t < u) =>
                DistanciaEn(ef, t, natal_long, angulo) <= DistanciaEn(ef, u, natal_long, angulo)

\* C32: encontrar_momento_aspecto(jd1, jd2, ...), when no provider call
\* raises, returns an instant of [jd1, jd2], and when the aspect distance
\* has a single minimum in the interval some instant within the final
\* bracket width of the returned one is at least as close to the aspect
\* as every instant of the interval.
C32_MomentoMasExacto ==
    (scanner = "planeta" /\ Truthy(entrada.posiciones_natales)) =>
        \A par \in ParesDeMediodias :
            \A natal \in Rango(Val(entrada.posiciones_natales)) :
                \A a \in 1..Len(ASPECTOS_API) :
                    LET jd1 == par[1] * TICKS + TICKS \div 2
                        jd2 == par[2] * TICKS + TICKS \div 2
                        ang == ASPECTOS_API[a].angulo
                        r == encontrar_momento_aspecto(efem, jd1, jd2, natal.longitud, ang)
                        ancho == (jd2 - jd1) \div (2 ^ ITERACIONES)
                    IN (r # None /\ \A k \in par[1]..par[2] : efem[k].lon # None) =>
                        /\ jd1 <= Val(r).jd_exacto /\ Val(r).jd_exacto <= jd2
                        /\ UnSoloMinimo(efem, jd1, jd2, natal.longitud, ang) =>
                            \E t \in (Val(r).jd_exacto - ancho)..(Val(r).jd_exacto + ancho) :
                                /\ jd1 <= t /\ t <= jd2
                                /\ \A u \in InstantesDe(jd1, jd2) :
                                    DistanciaEn(efem, t, natal.longitud, ang)
                                        <= DistanciaEn(efem, u, natal.longitud, ang)

\* the target lies between the elongations of the two samples, the
\* elongation passing through 360 when the second is the smaller
Enmarcan(elong, elong_next, ang_obj) ==
    \/ (elong <= ang_obj /\ ang_obj <= elong_next)
    \/ (elong_next <= ang_obj /\ ang_obj <= elong)
    \/ (elong > elong_next /\ (elong <= ang_obj \/ ang_obj <= elong_next))

\* C33: every detection of calcular_fases_lunares comes from two
\* consecutive samples whose elongations bracket the target angle, its
\* interpolation fraction is in [0, 1], and its timestamp lies within
\* [fecha, fecha + 30 min].
C33_DeteccionEnmarcada ==
    (scanner = "deteccion" /\ pc = "fin") =>
        \A i \in 1..Len(Val(resultado)) :
            LET d == Val(resultado)[i]
            IN /\ Enmarcan(entrada.elong, entrada.elong_next, d.ang_obj)
               /\ 0 <= d.frac.num /\ d.frac.num <= d.frac.den
               /\ 0 <= d.desplazamiento /\ d.desplazamiento <= DELTA_FASES

\* an eclipse of the sky has been reported
Reportado(subtipo, e) ==
    \E i \in 1..Len(hallados) : hallados[i].subtipo = subtipo /\ hallados[i].jd = e

\* C34: calcular_eclipses is complete for a provider that answers the
\* earliest eclipse at or after the cursor: the list it returns holds
\* every solar and every lunar eclipse of the sky whose instant lies in
\* [jd_inicio, jd_final].
C34_EclipsesCompletos ==
    (scanner = "eclipses" /\ pc = "fin" /\ entrada.proveedor = "primero") =>
        /\ \A e \in entrada.solares :
            (jd_inicio <= e /\ e <= jd_final) => Reportado("solar", e)
        /\ \A e \in entrada.lunares :
            (jd_inicio <= e /\ e <= jd_final) => Reportado("lunar", e)

\* the cursor at the entry of both loops of calcular_eclipses
jd_primera_busqueda == jd_inicio - MARGEN * CENTESIMAS_DIA

\* The iterations a loop of calcular_eclipses can begin: one per SALTO
\* days between its first cursor and jd_final, and the one that breaks.
CotaVueltas ==
    IF jd_final < jd_primera_busqueda THEN 1
    ELSE (jd_final - jd_primera_busqueda) \div (SALTO * CENTESIMAS_DIA) + 2

\* C35: both search loops of calcular_eclipses terminate for every
\* interval, an end before the start included, when the provider answers
\* an instant not earlier than the cursor: while a loop runs its cursor
\* has advanced by at least 170 days per iteration begun, and no loop
\* begins more iterations than the interval has steps of 170 days, plus
\* the iteration that breaks.
C35_BuclesTerminan ==
    scanner = "eclipses" =>
        /\ vueltas["solar"] <= CotaVueltas /\ vueltas["lunar"] <= CotaVueltas
        /\ pc \in {"solar", "lunar"} =>
              jd_busqueda >= jd_primera_busqueda
                             + vueltas[pc] * SALTO * CENTESIMAS_DIA
        /\ pc = "fin" => vueltas["solar"] >= 1 /\ vueltas["lunar"] >= 1

\* a call over 201 days returned after three iterations of its solar loop
\* and one of its lunar loop; a call whose end is before its start returned
C35_Witness ==
    /\ scanner = "eclipses" /\ pc = "fin" /\ entrada.dias = 200
    /\ vueltas["solar"] = CotaVueltas /\ vueltas["lunar"] = 1

C35_WitnessFinAntes ==
    /\ scanner = "eclipses" /\ pc = "fin" /\ entrada.dias = -1
    /\ vueltas["solar"] = 2

\* the window of one key, as a sequence of at most one element
VentanaDeClave(vs, clave) == SelectSeq(vs, LAMBDA v : v.clave = clave)

\* the aspect events of one key in a list of events
EventosDeClave(evs, clave) ==
    SelectSeq(evs, LAMBDA ev :
        \/ ev.tipo = "aspecto_transito"
           /\ <<ev.planeta1, ev.planeta2, ev.aspecto>> = clave
        \/ ev.tipo = "aspecto"
           /\ <<ev.planeta_transito, ev.planeta_natal, ev.aspecto>> = clave)

\* the samples of this call so far at which every body of cs had a longitude
MuestrasCon(cs) ==
    SelectSeq(visitados, LAMBDA t : \A p \in cs : efem[t][p].lon # None)

SinVentanas == [ventanas |-> <<>>, out |-> out_al_entrar(entrada)]

\* the window machine of one key of calcular_transitos_cielo run alone
\* over the samples muestras
RECURSIVE AisladaCielo(_, _, _, _, _)
AisladaCielo(st, p1, p2, asp, muestras) ==
    IF muestras = <<>> THEN st
    ELSE LET t == Head(muestras)
             st1 == VentanaCielo(st, p1, p2, asp, Val(efem[t][p1].lon),
                                 Val(efem[t][p2].lon), t)
         IN IF Evaluado(st1)
            THEN AisladaCielo(st1, p1, p2, asp, Tail(muestras))
            ELSE st1

\* the window machine of one key of calcular_transitos_natal run alone
RECURSIVE AisladaNatal(_, _, _, _, _)
AisladaNatal(st, p, natal, asp, muestras) ==
    IF muestras = <<>> THEN st
    ELSE LET t == Head(muestras)
             st1 == VentanaNatal(st, p, natal, asp, Val(efem[t][p].lon), t)
         IN IF Evaluado(st1)
            THEN AisladaNatal(st1, p, natal, asp, Tail(muestras))
            ELSE st1

IndependientesCielo ==
    \A k \in Rango(ClavesCielo(planetas)) :
        LET p1 == planetas[k[1]]
            p2 == planetas[k[2]]
            asp == ASPECTOS[k[3]]
            clave == <<p1, p2, asp.nombre>>
            sola == AisladaCielo(SinVentanas, p1, p2, asp, MuestrasCon({p1, p2}))
        IN /\ VentanaDeClave(ventanas, clave) = sola.ventanas
           /\ EventosDeClave(out[p1], clave) = sola.out[p1]
           /\ EventosDeClave(out[p2], clave) = sola.out[p2]

IndependientesNatal ==
    LET pos == Val(entrada.posiciones_natales)
    IN \A p \in Rango(planetas) : \A k \in Rango(ClavesNatal(pos)) :
        LET natal == pos[k[1]]
            asp == ASPECTOS[k[2]]
            clave == <<p, natal.nombre, asp.nombre>>
            sola == AisladaNatal(SinVentanas, p, natal, asp, MuestrasCon({p}))
        IN /\ VentanaDeClave(ventanas, clave) = sola.ventanas
           /\ EventosDeClave(out[p], clave) = sola.out[p]

\* C36: the windows of distinct keys are independent.  While
\* calcular_transitos_cielo or calcular_transitos_natal samples, the window
\* of every key and the events emitted for it are the ones its own window
\* machine yields when run alone, from no window at all, over the samples
\* at which its bodies had a longitude: no other key's processing has
\* touched them, and in cielo a sample at which a body had no longitude has
\* left the windows of that body as they were.
C36_VentanasIndependientes ==
    /\ (scanner = "cielo" /\ pc = "bucle") => IndependientesCielo
    /\ (scanner = "natal" /\ pc = "bucle" /\ Truthy(entrada.posiciones_natales))
            => IndependientesNatal

\* cielo has emitted the event of one key while the window of another key
\* is still active, after a sample at which the Moon had no longitude and
\* a window of the Moon was open
C36_Witness ==
    /\ scanner = "cielo" /\ pc = "bucle"
    /\ \E i, j \in 1..Len(ventanas) :
          /\ ~ventanas[i].activo /\ ventanas[j].activo
          /\ ventanas[i].clave # ventanas[j].clave
          /\ EventosDeClave(out[ventanas[i].clave[1]], ventanas[i].clave) # <<>>
    /\ \E n \in 2..Len(visitados) :
          /\ efem[visitados[n]]["LUNA"].lon = None
          /\ efem[visitados[n - 1]]["LUNA"].lon # None
          /\ \E i \in 1..Len(ventanas) :
                /\ "LUNA" \in {ventanas[i].clave[1], ventanas[i].clave[2]}
                /\ strptime(ventanas[i].fecha_inicio) < visitados[n]

\* natal has emitted the event of one key while the window of another key
\* of the same body is still active
C36_WitnessNatal ==
    /\ scanner = "natal" /\ pc = "bucle"
    /\ \E i, j \in 1..Len(ventanas) :
          /\ ~ventanas[i].activo /\ ventanas[j].activo
          /\ ventanas[i].clave # ventanas[j].clave
          /\ EventosDeClave(out[ventanas[i].clave[1]], ventanas[i].clave) # <<>>

\* C37: for all longitudes a and b and every angle t of the catalog,
\* distancia_aspecto of main_api.py applied to (a - b) mod 360 and t
\* equals distancia_aspecto of transitos.py applied to a, b and t.
C37_DistanciasIguales ==
    (scanner = "angulos" /\ pc = "fin") =>
        Val(resultado).dist_api = Val(resultado).dist

\* an exact trine measured the long way round: a - b is 240 degrees
\* modulo 360, a being the smaller longitude
C37_Witness ==
    /\ scanner = "angulos" /\ pc = "fin"
    /\ entrada.ang_obj = 1200 /\ entrada.a < entrada.b
    /\ (entrada.a - entrada.b) % 3600 = 2400
    /\ Val(resultado).dist_api = 0 /\ Val(resultado).dist = 0

\* the events of a list between bodies p and q, in either order, for aspect asp
EventosDelPar(evs, p, q, asp) ==
    SelectSeq(evs, LAMBDA ev :
        {ev.planeta1, ev.planeta2} = {p, q} /\ ev.aspecto = asp)

\* every event of the lists of o is in the lists of its two bodies, once
\* in each, and in no other list
UnaVezPorCuerpo(o) ==
    \A p \in DOMAIN o : \A n \in 1..Len(o[p]) :
        LET ev == o[p][n]
        IN /\ ev.planeta1 # ev.planeta2
           /\ p \in {ev.planeta1, ev.planeta2}
           /\ \A q \in DOMAIN o :
                Len(EventosDelPar(o[q], ev.planeta1, ev.planeta2, ev.aspecto))
                    = IF q \in {ev.planeta1, ev.planeta2} THEN 1 ELSE 0
           /\ Len(SelectSeq(o[ev.planeta1], LAMBDA x : x = ev)) = 1
           /\ Len(SelectSeq(o[ev.planeta2], LAMBDA x : x = ev)) = 1

\* the event lists of the value returned by calcular_transitos_cielo
ListasDevueltas ==
    [p \in {Val(resultado)[i].planeta : i \in 1..Len(Val(resultado))} |->
        LET i == CHOOSE i \in 1..Len(Val(resultado)) : Val(resultado)[i].planeta = p
        IN Val(resultado)[i].eventos]

\* the pair loops visit each unordered pair of distinct bodies once per
\* aspect
UnaClavePorPar ==
    LET claves == ClavesCielo(planetas)
    IN /\ \A n \in 1..Len(claves) : claves[n][1] # claves[n][2]
       /\ \A i, j \in 1..Len(planetas) : \A a \in 1..Len(ASPECTOS) :
            i # j =>
                Cardinality({n \in 1..Len(claves) :
                                /\ {claves[n][1], claves[n][2]} = {i, j}
                                /\ claves[n][3] = a}) = 1

\* C38: in calcular_transitos_cielo every aspect event between two bodies
\* is once in the list of each of the two and in no other body's list,
\* while the scan runs and in the value returned, and each unordered pair
\* of distinct bodies is evaluated once per sample: one key, and so at
\* most one window, per pair and aspect.
C38_EventoEnAmbasListas ==
    scanner = "cielo" =>
        /\ UnaClavePorPar
        /\ \A i, j \in 1..Len(ventanas) :
              ({ventanas[i].clave[1], ventanas[i].clave[2]}
                    = {ventanas[j].clave[1], ventanas[j].clave[2]}
               /\ ventanas[i].clave[3] = ventanas[j].clave[3]) => i = j
        /\ UnaVezPorCuerpo(out)
        /\ pc = "fin" => UnaVezPorCuerpo(ListasDevueltas)

\* cielo returned, for three bodies, an event of the Sun and Mercury that
\* is in their two lists, the Moon's list holding other events
C38_Witness ==
    /\ scanner = "cielo" /\ pc = "fin" /\ Len(planetas) = 3
    /\ Len(EventosDelPar(ListasDevueltas["SOL"], "SOL", "MERCURIO", "conjuncion")) = 1
    /\ Len(EventosDelPar(ListasDevueltas["MERCURIO"], "SOL", "MERCURIO", "conjuncion")) = 1
    /\ ListasDevueltas["LUNA"] # <<>>
    /\ Len(ListasDevueltas["SOL"]) >= 2

\* the provider answered a longitude for body p at noon of the first and
\* of the last day
PosicionesCalculables(p) ==
    /\ efem[mediodia(inicio_day)][p].lon # None
    /\ efem[mediodia(final_day)][p].lon # None

\* C39: in calcular_transitos_cielo and calcular_transitos_natal a failure
\* to compute the initial or final position of one body affects that body
\* only: the record returned for every body whose two positions are
\* computable has posicion_inicial and posicion_final filled in.
C39_PosicionesDeLosDemas ==
    (scanner \in {"cielo", "natal"} /\ pc = "fin") =>
        \A i \in 1..Len(Val(resultado)) :
            PosicionesCalculables(Val(resultado)[i].planeta) =>
                /\ Val(resultado)[i].posicion_inicial # None
                /\ Val(resultado)[i].posicion_final # None

====
